---------------------------- MODULE Spec2Model ----------------------------
(***************************************************************************)
(* A model of the profile-statistics scripts of Amey-Thakur/Amey-Thakur:   *)
(*   Source Code/stats.py, Source Code/languages.py,                       *)
(*   Source Code/generate_stats.py and scripts/generate_stats.py.          *)
(*                                                                         *)
(* Python floats are modelled as exact rationals <<n, d>> (d > 0, lowest   *)
(* terms); a dict is a sequence of <<key, value>> pairs with unique keys   *)
(* in insertion order; a Python str that the code takes apart is a         *)
(* sequence of one-character strings.                                      *)
(***************************************************************************)
EXTENDS Integers, Sequences, FiniteSets, Bags, TLC

VARIABLES
    mode,       \* which part of the program this behaviour runs
    pc,         \* the position of the running procedure
    langs,      \* create_langs_svg: the argument langs
    svg,        \* create_langs_svg: what the call produced
    url,        \* fetch_data: the argument url
    token,      \* fetch_data: the argument token
    response,   \* fetch_data: what the network answers to the request
    fetched,    \* fetch_data: what the call produced
    snapA,      \* calculate_grade: the argument stats of a first call
    snapB,      \* calculate_grade: the argument stats of a second call
    gradeA,     \* calculate_grade: what the first call produced
    gradeB,     \* calculate_grade: what the second call produced
    script,     \* main: the script that runs
    listing,    \* the remote repository listing of the user
    page,       \* main: the page the loop asks for next
    all_repos,  \* main: the records collected so far
    requests,   \* the listing requests sent so far, each with what came back
    stats,      \* main: the dict stats
    exc,        \* main: the exception that ended the try block, if any
    pr_search,  \* main: what the pull request search returned
    lang_data,  \* what the network answers to the languages request of each record
    all_langs_density,  \* main: the dict all_langs_density
    agg,        \* the aggregation loop: how it ended and the records it visited
    cache,      \* the cache file of the script
    cache_writes,  \* what main wrote to the cache file, in order
    badge,      \* the badge files docs/stats.svg and docs/languages.svg
    printed,    \* what main printed, in order
    commit_calls,  \* main of stats.py: the commit sources it asked, in order
    cache_reads,   \* how often main read the cache file
    gate,       \* the event name and the local hour main saw, where recorded
    history,    \* the runs that ended before this one, oldest first
    readme_writes,  \* how often update_readme wrote README.md
    contrib_count,  \* the count a commits string is made from
    trip        \* the commits string made from it, and the value read back

langVars == <<langs, svg>>
fetchVars == <<url, token, response, fetched>>
gradeVars == <<snapA, snapB, gradeA, gradeB>>
aggVars == <<lang_data, all_langs_density, agg>>
fileVars == <<cache, cache_writes, badge, printed>>
mainVars == <<script, listing, page, all_repos, requests, stats, exc, pr_search, aggVars,
              fileVars>>
tripVars == <<contrib_count, trip>>
obsVars == <<commit_calls, cache_reads, gate, history, readme_writes>>
vars == <<mode, pc, langs, svg, url, token, response, fetched,
          snapA, snapB, gradeA, gradeB,
          script, listing, page, all_repos, requests, stats, exc, pr_search,
          lang_data, all_langs_density, agg,
          cache, cache_writes, badge, printed,
          commit_calls, cache_reads, gate, history, readme_writes,
          contrib_count, trip>>

-----------------------------------------------------------------------------
(* Exact rational arithmetic standing for Python's float arithmetic.        *)

RECURSIVE GCD(_, _)
GCD(a, b) == IF b = 0 THEN a ELSE GCD(b, a % b)

Abs(n) == IF n < 0 THEN -n ELSE n

\* n/d in lowest terms with a positive denominator (d # 0)
Rat(n, d) ==
    LET g == GCD(Abs(n), Abs(d))
        s == IF d < 0 THEN -1 ELSE 1
    IN  <<(s * n) \div g, (s * d) \div g>>

RInt(n) == <<n, 1>>

RAdd(x, y) ==
    LET g == GCD(x[2], y[2])
        l == (x[2] \div g) * y[2]
    IN  Rat(x[1] * (l \div x[2]) + y[1] * (l \div y[2]), l)

\* x * y; the factors are in lowest terms, so cancelling crosswise leaves the
\* product in lowest terms
RMul(x, y) ==
    LET g == GCD(Abs(x[1]), y[2])
        h == GCD(Abs(y[1]), x[2])
    IN  <<(x[1] \div g) * (y[1] \div h), (x[2] \div h) * (y[2] \div g)>>

\* x / y, for y # 0
RDiv(x, y) ==
    RMul(x, IF y[1] < 0 THEN <<-y[2], -y[1]>> ELSE <<y[2], y[1]>>)

\* x - y scaled by the least common denominator: its sign is that of x - y
RCmp(x, y) ==
    IF x[2] = y[2] THEN x[1] - y[1]
    ELSE LET g == GCD(x[2], y[2])
         IN  x[1] * (y[2] \div g) - y[1] * (x[2] \div g)

RLt(x, y) == RCmp(x, y) < 0
RLe(x, y) == RCmp(x, y) <= 0
RIsZero(x) == x[1] = 0

\* s[lo] + ... + s[hi], the two halves summed apart
RECURSIVE RSumRange(_, _, _)
RSumRange(s, lo, hi) ==
    IF lo > hi THEN RInt(0)
    ELSE IF lo = hi THEN s[lo]
    ELSE LET m == (lo + hi) \div 2
         IN  RAdd(RSumRange(s, lo, m), RSumRange(s, m + 1, hi))

\* sum(s)
RSum(s) == RSumRange(s, 1, Len(s))

-----------------------------------------------------------------------------
(* Natural numbers of any size, as the sequence of their base-10000 digits, *)
(* lowest first and without leading zeros, and IEEE 754 binary64 floats     *)
(* over them: the float m * 2^e is the record [m, e] with                   *)
(* 2^52 <= m < 2^53, and 0.0 is [m |-> <<>>, e |-> 0].                      *)

Limb == 10000

\* the digits without the zeros at the high end
RECURSIVE BTrim(_)
BTrim(b) ==
    IF b = <<>> \/ b[Len(b)] # 0 THEN b ELSE BTrim(SubSeq(b, 1, Len(b) - 1))

\* b * k + c, for 0 <= k <= Limb and 0 <= c < Limb * Limb
RECURSIVE BMulAdd(_, _, _)
BMulAdd(b, k, c) ==
    IF b = <<>>
    THEN BTrim(<<c % Limb, c \div Limb>>)
    ELSE LET t == b[1] * k + c
         IN  <<t % Limb>> \o BMulAdd(Tail(b), k, t \div Limb)

BFromInt(n) == BMulAdd(<<>>, 0, n)
BMul(b, k) == BTrim(BMulAdd(b, k, 0))

\* the quotient digits i..Len(b) and the remainder of b \div k, 0 < k <= Limb
RECURSIVE BDivFrom(_, _, _)
BDivFrom(b, k, i) ==
    IF i > Len(b) THEN [q |-> <<>>, r |-> 0]
    ELSE LET hi == BDivFrom(b, k, i + 1)
             cur == hi.r * Limb + b[i]
         IN  [q |-> <<cur \div k>> \o hi.q, r |-> cur % k]

BDivMod(b, k) ==
    LET d == BDivFrom(b, k, 1) IN [q |-> BTrim(d.q), r |-> d.r]

\* the sign of a - b
RECURSIVE BCmpFrom(_, _, _)
BCmpFrom(a, b, i) ==
    IF i = 0 THEN 0
    ELSE IF a[i] # b[i] THEN a[i] - b[i]
    ELSE BCmpFrom(a, b, i - 1)

BCmp(a, b) ==
    IF Len(a) # Len(b) THEN Len(a) - Len(b) ELSE BCmpFrom(a, b, Len(a))

\* 2^j for 0 <= j <= 10
RECURSIVE Pow2(_)
Pow2(j) == IF j = 0 THEN 1 ELSE 2 * Pow2(j - 1)

\* b * 2^j, ten bits at a time
RECURSIVE BShl(_, _)
BShl(b, j) ==
    IF j <= 10 THEN BMul(b, Pow2(j)) ELSE BShl(BMul(b, 1024), j - 10)

Two52 == <<496, 2737, 5996, 4503>>
Two53 == <<992, 5474, 1992, 9007>>

F64Zero == [m |-> <<>>, e |-> 0]

\* b \div k rounded to the nearest integer, a tie to the even one
BDivRound(b, k) ==
    LET d == BDivMod(b, k)
        odd == d.q # <<>> /\ d.q[1] % 2 = 1
    IN  IF 2 * d.r > k \/ (2 * d.r = k /\ odd) THEN BMulAdd(d.q, 1, 1) ELSE d.q

\* the least j >= 0 with n * 2^j >= k, for n > 0
RECURSIVE ShiftUp(_, _)
ShiftUp(n, k) == IF n >= k THEN 0 ELSE 1 + ShiftUp(2 * n, k)

\* the greatest j >= 0 with k * 2^j <= n, for n >= k
RECURSIVE ShiftDown(_, _)
ShiftDown(n, k) == IF n < 2 * k THEN 0 ELSE 1 + ShiftDown(n, 2 * k)

\* floor(log2(n / k)), for n > 0 and k > 0
Log2Floor(n, k) == IF n >= k THEN ShiftDown(n, k) ELSE -ShiftUp(n, k)

\* a mantissa that rounding carried up to 2^53 is 2^52 with the next exponent
F64Norm(m, e) ==
    IF BCmp(m, Two53) >= 0 THEN [m |-> BDivMod(m, 2).q, e |-> e + 1]
    ELSE [m |-> m, e |-> e]

\* the float nearest to n / k, for 0 <= n < 2^20 and 0 < k <= Limb
F64OfRatio(n, k) ==
    IF n = 0 THEN F64Zero
    ELSE LET s == 52 - Log2Floor(n, k)
         IN  F64Norm(BDivRound(BShl(BFromInt(n), s), k), -s)

\* the least j >= 0 with b \div 2^j < 2^53, for b < 2^63
RECURSIVE DropBits(_, _)
DropBits(b, j) ==
    IF BCmp(BDivMod(b, Pow2(j)).q, Two53) < 0 THEN j ELSE DropBits(b, j + 1)

\* x * k as the float multiplication gives it, for an integer 0 < k < 1024
F64MulInt(x, k) ==
    IF x.m = <<>> THEN F64Zero
    ELSE LET p == BMul(x.m, k)
             t == DropBits(p, 0)
         IN  F64Norm(BDivRound(p, Pow2(t)), x.e + t)

\* the sign of x - a / 2^j, for integers a >= 0 and j >= 0
F64CmpDyadic(x, a, j) ==
    IF x.m = <<>> THEN (IF a = 0 THEN 0 ELSE -1)
    ELSE IF x.e + j >= 0 THEN BCmp(BShl(x.m, x.e + j), BFromInt(a))
    ELSE BCmp(x.m, BShl(BFromInt(a), -(x.e + j)))

\* b \div 2^j, ten bits at a time
RECURSIVE BShr(_, _)
BShr(b, j) ==
    IF j <= 10 THEN BDivMod(b, Pow2(j)).q ELSE BShr(BDivMod(b, 1024).q, j - 10)

\* a number below 2^31 as an integer
BToInt(b) ==
    (IF Len(b) > 0 THEN b[1] ELSE 0) + (IF Len(b) > 1 THEN b[2] * Limb ELSE 0)
        + (IF Len(b) > 2 THEN b[3] * Limb * Limb ELSE 0)

\* int(x) for a float 0 <= x < 2^31
F64Trunc(x) ==
    IF x.m = <<>> THEN 0
    ELSE IF x.e >= 0 THEN BToInt(BShl(x.m, x.e))
    ELSE IF -x.e > 52 THEN 0
    ELSE BToInt(BShr(x.m, -x.e))

\* a + b + c, for a carry c of 0 or 1
RECURSIVE BAddFrom(_, _, _)
BAddFrom(a, b, c) ==
    IF a = <<>> /\ b = <<>> THEN (IF c = 0 THEN <<>> ELSE <<c>>)
    ELSE LET x == IF a = <<>> THEN 0 ELSE a[1]
             y == IF b = <<>> THEN 0 ELSE b[1]
             s == x + y + c
         IN  <<s % Limb>> \o BAddFrom(IF a = <<>> THEN a ELSE Tail(a),
                                      IF b = <<>> THEN b ELSE Tail(b),
                                      s \div Limb)

BAdd(a, b) == BTrim(BAddFrom(a, b, 0))

\* x + y as the float addition gives it, for floats x, y >= 0 whose exponents
\* differ by at most 10
F64Add(x, y) ==
    IF x.m = <<>> THEN y
    ELSE IF y.m = <<>> THEN x
    ELSE LET e == IF x.e < y.e THEN x.e ELSE y.e
             s == BAdd(BShl(x.m, x.e - e), BShl(y.m, y.e - e))
             t == DropBits(s, 0)
         IN  F64Norm(BDivRound(s, Pow2(t)), e + t)

\* x / n as the float division gives it, for a float x >= 0 and an integer
\* 0 < n <= Limb
F64DivInt(x, n) ==
    IF x.m = <<>> THEN F64Zero
    ELSE LET up == ShiftUp(1, n)
             s == IF BCmp(BDivMod(BShl(x.m, up), n).q, Two53) >= 0
                  THEN up - 1 ELSE up
         IN  F64Norm(BDivRound(BShl(x.m, s), n), x.e - s)

-----------------------------------------------------------------------------
(* Sequence helpers.                                                        *)

Range(s) == {s[i] : i \in DOMAIN s}
Keys(d) == {d[i][1] : i \in DOMAIN d}
Values(d) == [i \in DOMAIN d |-> d[i][2]]
HasKey(d, k) == k \in Keys(d)
Get(d, k) == (CHOOSE e \in Range(d) : e[1] = k)[2]
Take(s, n) == SubSeq(s, 1, IF Len(s) < n THEN Len(s) ELSE n)

\* e put into the descending list s behind every entry whose value is >= its
\* own: one step of a stable descending sort
InsertDesc(s, e) ==
    LET k == Cardinality({i \in DOMAIN s : RLe(e[2], s[i][2])})
    IN  SubSeq(s, 1, k) \o <<e>> \o SubSeq(s, k + 1, Len(s))

\* sorted(s, key=lambda x: x[1], reverse=True): stable, descending by value
RECURSIVE SortedDesc(_)
SortedDesc(s) ==
    IF s = <<>> THEN <<>>
    ELSE InsertDesc(SortedDesc(SubSeq(s, 1, Len(s) - 1)), s[Len(s)])

\* [item for item in s if item[0] not in excluded]
SelectPairs(s, excluded) == SelectSeq(s, LAMBDA item : item[1] \notin excluded)

-----------------------------------------------------------------------------
(* The remote fetcher: fetch_data of stats.py, languages.py and             *)
(* generate_stats.py.                                                       *)

None == [type |-> "None"]
List(items) == [type |-> "list", items |-> items]
Dict(items) == [type |-> "dict", items |-> items]

\* not v: None, the empty list and the empty dict are falsy
Falsy(v) == v = None \/ (v.type \in {"list", "dict"} /\ v.items = <<>>)
Str(s) == [type |-> "str", s |-> s]

\* a url is the pair of its scheme ("" when it has none) and the rest
Url(scheme, rest) == [scheme |-> scheme, rest |-> rest]

\* urllib.request.Request(url): a url without a scheme raises ValueError
\* ("unknown url type")
RequestRaises(u) == u.scheme = ""

\* json.loads(response.read().decode()): bytes that are not UTF-8 raise
\* UnicodeDecodeError, text that is not JSON raises JSONDecodeError, and JSON
\* text gives its document (null gives None)
Decode(body) ==
    IF body.kind = "bytes" THEN [raised |-> "UnicodeDecodeError", value |-> None]
    ELSE IF body.kind = "text" THEN [raised |-> "JSONDecodeError", value |-> None]
    ELSE [raised |-> "none", value |-> body.doc]

\* the exceptions of the try block, all subclasses of Exception
Caught == {"HTTPError", "URLError", "TimeoutError", "UnicodeDecodeError",
           "JSONDecodeError"}

\* the body of the try block: urlopen, then read, decode and parse
TryFetch(resp) ==
    IF resp.error # "none" THEN [raised |-> resp.error, value |-> None]
    ELSE Decode(resp.body)

\* the headers of the request: Accept in stats.py and languages.py, and
\* Authorization when the token is truthy
Headers(accept, tok) ==
    (IF accept THEN {"Accept"} ELSE {})
        \cup (IF tok # None /\ tok # Str("") THEN {"Authorization"} ELSE {})

\* fetch_data(url, token): the request is built before the try block; inside
\* it every Exception is turned into None
fetch_data_in(by, accept, u, tok, resp) ==
    IF RequestRaises(u)
    THEN [by |-> by, raised |-> "ValueError", value |-> None, headers |-> {},
          sent |-> FALSE]
    ELSE LET r == TryFetch(resp)
         IN  [by |-> by,
              raised |-> IF r.raised \in Caught THEN "none" ELSE r.raised,
              value |-> IF r.raised = "none" THEN r.value ELSE None,
              headers |-> Headers(accept, tok), sent |-> TRUE]

ST_fetch_data(u, tok, resp) == fetch_data_in("stats", TRUE, u, tok, resp)
LG_fetch_data(u, tok, resp) == fetch_data_in("languages", TRUE, u, tok, resp)
GS_fetch_data(u, tok, resp) == fetch_data_in("generate_stats", FALSE, u, tok, resp)
SC_fetch_data(u, tok, resp) == fetch_data_in("scripts", FALSE, u, tok, resp)

NotFetched == [by |-> "none", raised |-> "none", value |-> None, headers |-> {},
               sent |-> FALSE]

-----------------------------------------------------------------------------
(* The grader: calculate_grade of stats.py, generate_stats.py and           *)
(* scripts/generate_stats.py.                                               *)

\* a Python int, and a Python str as the sequence of its characters
PyInt(n) == [type |-> "int", n |-> n]
Chars(cs) == [type |-> "str", s |-> cs]

DigitChars == <<"0", "1", "2", "3", "4", "5", "6", "7", "8", "9">>
IsDigit(c) == c \in Range(DigitChars)
DigitVal(c) == (CHOOSE i \in DOMAIN DigitChars : DigitChars[i] = c) - 1

\* the decimal digits of n >= 0
RECURSIVE Digits(_)
Digits(n) ==
    IF n < 10 THEN <<DigitChars[n + 1]>>
    ELSE Digits(n \div 10) \o <<DigitChars[(n % 10) + 1]>>

\* str(v)
StrOf(v) ==
    IF v.type = "int"
    THEN (IF v.n < 0 THEN <<"-">> \o Digits(-v.n) ELSE Digits(v.n))
    ELSE v.s

\* c in s
Contains(s, c) == \E i \in DOMAIN s : s[i] = c

\* s.replace(old, ''): every occurrence of old, left to right, is dropped
RECURSIVE Replace(_, _)
Replace(s, old) ==
    IF Len(s) < Len(old) THEN s
    ELSE IF SubSeq(s, 1, Len(old)) = old
    THEN Replace(SubSeq(s, Len(old) + 1, Len(s)), old)
    ELSE <<s[1]>> \o Replace(Tail(s), old)

RECURSIVE Pow10(_)
Pow10(k) == IF k = 0 THEN 1 ELSE 10 * Pow10(k - 1)

\* the number a sequence of digits writes
RECURSIVE DigitsVal(_)
DigitsVal(ds) ==
    IF ds = <<>> THEN 0
    ELSE 10 * DigitsVal(SubSeq(ds, 1, Len(ds) - 1)) + DigitVal(ds[Len(ds)])

\* float(s) for the decimal numerals digits[.digits] and .digits; any other
\* text of the model raises ValueError
FloatOf(s) ==
    LET dots == {i \in DOMAIN s : s[i] = "."}
        dot == IF dots = {} THEN Len(s) + 1 ELSE CHOOSE i \in dots : TRUE
        whole == SubSeq(s, 1, dot - 1)
        frac == SubSeq(s, dot + 1, Len(s))
        ok == /\ Cardinality(dots) <= 1
              /\ \A i \in DOMAIN s : IsDigit(s[i]) \/ s[i] = "."
              /\ Len(whole) + Len(frac) > 0
    IN  IF ok
        THEN [raised |-> "none",
              value |-> Rat(DigitsVal(whole) * Pow10(Len(frac)) + DigitsVal(frac),
                            Pow10(Len(frac)))]
        ELSE [raised |-> "ValueError", value |-> RInt(0)]

\* the "k" form read without the factor 1000
Mutant_ParseNoThousand(v) ==
    LET commit_raw == StrOf(v)
    IN  IF Contains(commit_raw, "k")
        THEN FloatOf(Replace(Replace(commit_raw, <<"k", "+">>), <<"k">>))
        ELSE FloatOf(commit_raw)

\* only 'k' is dropped, so the '+' of "k+" reaches float()
Mutant_ParseKeepsPlus(v) ==
    LET commit_raw == StrOf(v)
    IN  IF Contains(commit_raw, "k")
        THEN LET f == FloatOf(Replace(commit_raw, <<"k">>))
             IN  [raised |-> f.raised, value |-> RMul(f.value, RInt(1000))]
        ELSE FloatOf(commit_raw)

\* the commit parser of stats.py and generate_stats.py:
\*   commit_raw = str(stats.get('commits', '0'))
\*   float(commit_raw.replace('k+', '').replace('k', '')) * 1000
\*       if 'k' in commit_raw else float(commit_raw)
ParseCommits(v) ==
    LET commit_raw == StrOf(v)
    IN  IF Contains(commit_raw, "k")
        THEN LET f == FloatOf(Replace(Replace(commit_raw, <<"k", "+">>), <<"k">>))
             IN  [raised |-> f.raised, value |-> RMul(f.value, RInt(1000))]
        ELSE FloatOf(commit_raw)

\* the commit parser of scripts/generate_stats.py: without a 'k' the field
\* itself goes to float()
SC_ParseCommits(v) ==
    IF Contains(StrOf(v), "k")
    THEN LET f == FloatOf(Replace(Replace(StrOf(v), <<"k", "+">>), <<"k">>))
         IN  [raised |-> f.raised, value |-> RMul(f.value, RInt(1000))]
    ELSE FloatOf(StrOf(v))

\* the commit parser of stats.py with the float arithmetic of Python: float()
\* gives the binary64 nearest to the numeral, and * 1000 rounds once more
ParseCommits64(v) ==
    LET commit_raw == StrOf(v)
        numeral == IF Contains(commit_raw, "k")
                   THEN FloatOf(Replace(Replace(commit_raw, <<"k", "+">>), <<"k">>))
                   ELSE FloatOf(commit_raw)
        x == F64OfRatio(numeral.value[1], numeral.value[2])
    IN  [raised |-> numeral.raised,
         value |-> IF numeral.raised # "none" THEN F64Zero
                   ELSE IF Contains(commit_raw, "k") THEN F64MulInt(x, 1000)
                   ELSE x]

\* a count rounded up to the next hundred before it is written
Mutant_FormatRoundsUp(n) ==
    IF n >= 1000
    THEN LET q == (n + 99) \div 100
         IN  Digits(q \div 10) \o <<".">> \o Digits(q % 10) \o <<"k">>
    ELSE Digits(n)

\* f"{int(n / 100) / 10}k" if n >= 1000 else str(n): n / 100 is a float
\* division, int() cuts it, and the text of q / 10 is the shortest numeral
\* that reads back as that float, which is the one-decimal numeral of q / 10
FormatCommits(n) ==
    IF n >= 1000
    THEN LET q == F64Trunc(F64OfRatio(n, 100))
         IN  Digits(q \div 10) \o <<".">> \o Digits(q % 10) \o <<"k">>
    ELSE Digits(n)

NoTrip == [text |-> <<>>, raised |-> "none", value |-> F64Zero]

\* score = (stars * 10) + (commits * w) + (prs * 50) + (issues * 5)
\*             + (contribs * 100)
Score(st, commits, w) ==
    RAdd(RAdd(RAdd(RAdd(RInt(st.stars * 10), RMul(commits, w)),
                   RInt(st.prs * 50)), RInt(st.issues * 5)),
         RInt(st.contribs * 100))

\* the commit weights: 1.5 in stats.py and generate_stats.py, 0.05 in
\* scripts/generate_stats.py
CommitWeight == <<3, 2>>
SC_CommitWeight == <<1, 20>>

\* the if-chains, top first: <<threshold, label, percentile>>
ST_GradeTable ==
    <<<<20000, "A+", 98>>, <<15000, "A", 90>>, <<10000, "A-", 80>>,
      <<5000, "B+", 65>>, <<2000, "B", 50>>>>

\* the percentiles of B and B- exchanged
Mutant_GS_GradeTable ==
    <<<<8000, "A+", 95>>, <<6000, "A", 85>>, <<4000, "A-", 75>>,
      <<3000, "B+", 65>>, <<2000, "B", 45>>, <<1000, "B-", 55>>>>

GS_GradeTable ==
    <<<<8000, "A+", 95>>, <<6000, "A", 85>>, <<4000, "A-", 75>>,
      <<3000, "B+", 65>>, <<2000, "B", 55>>, <<1000, "B-", 45>>>>

SC_GradeTable ==
    <<<<800, "A+", 95>>, <<600, "A", 85>>, <<400, "A-", 75>>,
      <<300, "B+", 65>>, <<200, "B", 55>>, <<100, "B-", 45>>>>

\* if score > t: return label, percentile ... return "C", 30
RECURSIVE Lookup(_, _, _)
Lookup(score, table, i) ==
    IF i > Len(table) THEN <<"C", 30>>
    ELSE IF RLt(RInt(table[i][1]), score) THEN <<table[i][2], table[i][3]>>
    ELSE Lookup(score, table, i + 1)

GradeWith(by, st, parsed, w, table) ==
    IF parsed.raised # "none"
    THEN [by |-> by, raised |-> parsed.raised, commits |-> RInt(0),
          score |-> RInt(0), label |-> "none", percentile |-> 0]
    ELSE LET score == Score(st, parsed.value, w)
             g == Lookup(score, table, 1)
         IN  [by |-> by, raised |-> "none", commits |-> parsed.value,
              score |-> score, label |-> g[1], percentile |-> g[2]]

ST_calculate_grade(st) ==
    GradeWith("stats", st, ParseCommits(st.commits), CommitWeight, ST_GradeTable)

GS_calculate_grade(st) ==
    GradeWith("generate_stats", st, ParseCommits(st.commits), CommitWeight,
              GS_GradeTable)

SC_calculate_grade(st) ==
    GradeWith("scripts", st, SC_ParseCommits(st.commits), SC_CommitWeight,
              SC_GradeTable)

NoGrade == [by |-> "none", raised |-> "none", commits |-> RInt(0),
            score |-> RInt(0), label |-> "none", percentile |-> 0]

NoSnapshot == [stars |-> 0, commits |-> PyInt(0), prs |-> 0, issues |-> 0,
               contribs |-> 0]

-----------------------------------------------------------------------------
(* The normalizer: create_langs_svg of Source Code/generate_stats.py and of *)
(* Source Code/languages.py, up to the list visible_langs that the bar and  *)
(* the legend are drawn from.                                               *)

PRIORITY_LANGS == <<"R", "Julia", "MATLAB", "LaTeX", "C++", "Python">>

IsPriority(name) == name \in Range(PRIORITY_LANGS)

\* the number of entries drawn
VisibleCap == 18

\* the visibility floor, in percent
FloorPct == 1

\* the values scaled by 100 and never divided by the total
Mutant_PercentagesNoDivide(visible, total) ==
    [i \in DOMAIN visible |-> <<visible[i][1], RMul(visible[i][2], RInt(100))>>]

\* for item in visible_langs: item[1] = (item[1] / total) * 100
Percentages(visible, total) ==
    [i \in DOMAIN visible |->
        <<visible[i][1], RMul(RDiv(visible[i][2], total), RInt(100))>>]

\* if item[0] in PRIORITY_LANGS and item[1] < 1.0: item[1] = 1.0
VisibilityFloor(visible) ==
    [i \in DOMAIN visible |->
        IF IsPriority(visible[i][1]) /\ RLt(visible[i][2], RInt(FloorPct))
        THEN <<visible[i][1], RInt(FloorPct)>>
        ELSE visible[i]]

\* Step 1 left out: no priority language is put in ahead of the others
Mutant_NoGuarantee(d, i, visible) == visible

\* Step 1 of generate_stats.py: the priority languages that are keys of langs,
\* in the order of PRIORITY_LANGS
RECURSIVE GS_GuaranteePriority(_, _, _)
GS_GuaranteePriority(d, i, visible) ==
    IF i > Len(PRIORITY_LANGS) THEN visible
    ELSE IF HasKey(d, PRIORITY_LANGS[i]) /\ Len(visible) < VisibleCap
    THEN GS_GuaranteePriority(d, i + 1,
            Append(visible, <<PRIORITY_LANGS[i], Get(d, PRIORITY_LANGS[i])>>))
    ELSE GS_GuaranteePriority(d, i + 1, visible)

\* Step 2 of generate_stats.py: the remaining slots go to the other entries,
\* highest value first
GS_FillRemaining(d, visible) ==
    LET sorted_remaining == SortedDesc(SelectPairs(d, Keys(visible)))
    IN  visible \o Take(sorted_remaining, VisibleCap - Len(visible))

\* visible_langs of generate_stats.py before the normalization
GS_Visible(d) ==
    SortedDesc(GS_FillRemaining(d, GS_GuaranteePriority(d, 1, <<>>)))

\* create_langs_svg of generate_stats.py: the second division is by total_adj
\* as summed, and raises ZeroDivisionError when that is 0 and there is an item
GS_create_langs_svg(d) ==
    LET visible_langs == GS_Visible(d)
        sum_raw == RSum(Values(visible_langs))
        total_raw == IF RIsZero(sum_raw) THEN RInt(1) ELSE sum_raw
        floored == VisibilityFloor(Percentages(visible_langs, total_raw))
        total_adj == RSum(Values(floored))
    IN  IF floored # <<>> /\ RIsZero(total_adj)
        THEN [by |-> "generate_stats", raised |-> "ZeroDivisionError",
              selected |-> visible_langs, visible |-> <<>>]
        ELSE [by |-> "generate_stats", raised |-> "none",
              selected |-> visible_langs,
              visible |-> Percentages(floored, total_adj)]

\* visible_langs of languages.py before the normalization
LG_Visible(d) == Take(SortedDesc(d), VisibleCap)

\* create_langs_svg of languages.py: both totals are replaced by 1 when 0, and
\* the list is sorted after the normalization
LG_create_langs_svg(d) ==
    LET visible_langs == LG_Visible(d)
        sum_raw == RSum(Values(visible_langs))
        total_raw == IF RIsZero(sum_raw) THEN RInt(1) ELSE sum_raw
        floored == VisibilityFloor(Percentages(visible_langs, total_raw))
        sum_adj == RSum(Values(floored))
        total_adj == IF RIsZero(sum_adj) THEN RInt(1) ELSE sum_adj
    IN  [by |-> "languages", raised |-> "none",
         selected |-> visible_langs,
         visible |-> SortedDesc(Percentages(floored, total_adj))]

NoSvg == [by |-> "none", raised |-> "none", selected |-> <<>>, visible |-> <<>>]

-----------------------------------------------------------------------------
(* main of stats.py, languages.py and generate_stats.py: the portfolio scan *)
(* (the pagination loop), the check that follows it and the star and issue  *)
(* totals.                                                                  *)

\* per_page of the listing url
PerPage == 100

\* the user the scripts report on
UserName == "Amey-Thakur"

\* repository names: "docs" holds no priority name, "compiler" holds an r
DocsName == <<"d", "o", "c", "s">>
CompilerName == <<"c", "o", "m", "p", "i", "l", "e", "r">>

\* the languages_url of a record of the listing
LanguagesUrl == Url("https", "api.github.com/repos/Amey-Thakur/repo/languages")

\* a record of the listing with the fields main reads
RepoRecord(id, name, fork, owner, stars, issues) ==
    [id |-> id, name |-> name, fork |-> fork, owner |-> owner,
     languages_url |-> LanguagesUrl,
     stargazers_count |-> stars, open_issues_count |-> issues]

\* record i of the listing
Repo(l, i) ==
    RepoRecord(i,
               IF i % 4 = 1 THEN CompilerName ELSE DocsName,
               i % 5 = 0,
               IF l.orgs >= 1 /\ i % 7 = 3 THEN "org-a"
               ELSE IF l.orgs >= 2 /\ i % 7 = 5 THEN "org-b"
               ELSE UserName,
               l.stars * (i % 3), i % 2)

\* the records the listing endpoint returns for ?per_page=pp&page=p
PageOf(l, pp, p) ==
    [j \in 1..(IF l.n >= p * pp THEN pp
               ELSE IF l.n > (p - 1) * pp THEN l.n - (p - 1) * pp
               ELSE 0) |-> Repo(l, (p - 1) * pp + j)]

\* what the network may answer to a listing request: the page, or a failure
PageResponses(l, pp, p) ==
    {[error |-> "none", body |-> [kind |-> "json", doc |-> List(PageOf(l, pp, p))]],
     [error |-> "none", body |-> [kind |-> "text", doc |-> None]],
     [error |-> "HTTPError", body |-> [kind |-> "json", doc |-> None]],
     [error |-> "URLError", body |-> [kind |-> "json", doc |-> None]]}

ListingUrl == Url("https", "api.github.com/users/Amey-Thakur/repos")

\* fetch_data as the running script defines it
FetchBy(sc, u, tok, resp) ==
    IF sc = "stats" THEN ST_fetch_data(u, tok, resp)
    ELSE IF sc = "languages" THEN LG_fetch_data(u, tok, resp)
    ELSE GS_fetch_data(u, tok, resp)

\* sum(counts[i] for i in 1..Len(counts)) of natural numbers: the size of the
\* bag that holds index i counts[i] times
SumOf(counts) ==
    BagCardinality([i \in {j \in 1..Len(counts) : counts[j] > 0} |-> counts[i]])

\* sum(r.get('stargazers_count', 0) for r in all_repos)
SumStars(rs) == SumOf([i \in 1..Len(rs) |-> rs[i].stargazers_count])

\* an issue total that stays at its initial value
Mutant_SumIssuesZero(rs) == 0

\* sum(r.get('open_issues_count', 0) for r in all_repos)
SumIssues(rs) == SumOf([i \in 1..Len(rs) |-> rs[i].open_issues_count])

\* stats as main sets it up: the commits default is 0 in stats.py and "13.8k+"
\* in generate_stats.py, contribs 0 and 1
InitialStats(sc) ==
    IF sc = "generate_stats"
    THEN [stars |-> 0, commits |-> Chars(<<"1", "3", ".", "8", "k", "+">>),
          prs |-> 0, issues |-> 0, contribs |-> 1]
    ELSE [stars |-> 0, commits |-> PyInt(0), prs |-> 0, issues |-> 0,
          contribs |-> 0]

\* str.lower() of one character, for the capitals of the names used
LowerChar(c) ==
    CASE c = "A" -> "a" [] c = "B" -> "b" [] c = "C" -> "c" [] c = "J" -> "j"
      [] c = "L" -> "l" [] c = "M" -> "m" [] c = "P" -> "p" [] c = "R" -> "r"
      [] c = "T" -> "t" [] c = "X" -> "x" [] OTHER -> c

\* s.lower()
Lower(cs) == [i \in DOMAIN cs |-> LowerChar(cs[i])]

\* the characters of the names of PRIORITY_LANGS
NameChars(p) ==
    CASE p = "R" -> <<"R">>
      [] p = "Julia" -> <<"J", "u", "l", "i", "a">>
      [] p = "MATLAB" -> <<"M", "A", "T", "L", "A", "B">>
      [] p = "LaTeX" -> <<"L", "a", "T", "e", "X">>
      [] p = "C++" -> <<"C", "+", "+">>
      [] p = "Python" -> <<"P", "y", "t", "h", "o", "n">>

\* sub in s, of two strings
IsSubstring(sub, s) ==
    \E k \in 0..(Len(s) - Len(sub)) : \A j \in DOMAIN sub : s[k + j] = sub[j]

\* densities that are not divided by the number of repositories
Mutant_DensitiesUnweighted(ld, n) ==
    LET r_total == SumOf([j \in DOMAIN ld.items |-> ld.items[j][2]])
    IN  IF r_total > 0
        THEN [j \in DOMAIN ld.items |->
                <<ld.items[j][1], Rat(ld.items[j][2], r_total)>>]
        ELSE <<>>

\* r_total = sum(ld.values()); if r_total > 0: for k, v in ld.items(): the
\* density (v / r_total) / n of every key, in the order of the dict
Densities(ld, n) ==
    LET r_total == SumOf([j \in DOMAIN ld.items |-> ld.items[j][2]])
    IN  IF r_total > 0
        THEN [j \in DOMAIN ld.items |->
                <<ld.items[j][1], RDiv(Rat(ld.items[j][2], r_total), RInt(n))>>]
        ELSE <<>>

\* the priority languages p_lang with p_lang.lower() in name.lower(), in the
\* order of PRIORITY_LANGS
PriorityHits(name) ==
    SelectSeq(PRIORITY_LANGS,
        LAMBDA p : IsSubstring(Lower(NameChars(p)), Lower(name)))

\* PriorityHits of the names the listings use, computed once
HitsByName ==
    (DocsName :> PriorityHits(DocsName)) @@
    (CompilerName :> PriorityHits(CompilerName))

\* for p_lang in PRIORITY_LANGS: if p_lang.lower() in r['name'].lower(): the
\* boost 0.1 / n of every priority language whose name occurs in the name
Boost(r, n) ==
    LET hits == IF r.name \in DOMAIN HitsByName THEN HitsByName[r.name]
                ELSE PriorityHits(r.name)
    IN  [j \in DOMAIN hits |-> <<hits[j], RDiv(Rat(1, 10), RInt(n))>>]

\* what one turn of a loop adds to all_langs_density, or the exception it raises
Turn(raised, adds, asked) == [raised |-> raised, adds |-> adds, asked |-> asked]

\* the densities of a truthy answer: sum(ld.values()) of an answer that is not
\* a dict raises AttributeError
DensitiesOfFetched(f, n) ==
    IF f.value.type = "dict" THEN Turn("none", Densities(f.value, n), TRUE)
    ELSE Turn("AttributeError", <<>>, TRUE)

\* a turn that lets a failed fetch end the loop
Mutant_TurnFailsHard(r, resp, tok, n) ==
    LET f == GS_fetch_data(r.languages_url, tok, resp)
    IN  IF f.raised # "none" THEN Turn(f.raised, <<>>, TRUE)
        ELSE IF f.value = None THEN Turn("TypeError", <<>>, TRUE)
        ELSE IF ~Falsy(f.value) THEN DensitiesOfFetched(f, n)
        ELSE Turn("none", Boost(r, n), TRUE)

\* one turn of the loop of generate_stats.py over record r
GS_Turn(r, resp, tok, n) ==
    LET f == GS_fetch_data(r.languages_url, tok, resp)
    IN  IF f.raised # "none" THEN Turn(f.raised, <<>>, TRUE)
        ELSE IF ~Falsy(f.value) THEN DensitiesOfFetched(f, n)
        ELSE Turn("none", Boost(r, n), TRUE)

\* one turn of the loop of languages.py over record r: a fork is passed over
\* a loop that treats a fork like every other repository
Mutant_LG_TurnAsksForks(r, resp, tok, n) ==
    LET f == LG_fetch_data(r.languages_url, tok, resp)
    IN  IF f.raised # "none" THEN Turn(f.raised, <<>>, TRUE)
        ELSE IF ~Falsy(f.value) THEN DensitiesOfFetched(f, n)
        ELSE Turn("none", <<>>, TRUE)

LG_Turn(r, resp, tok, n) ==
    IF r.fork THEN Turn("none", <<>>, FALSE)
    ELSE LET f == LG_fetch_data(r.languages_url, tok, resp)
         IN  IF f.raised # "none" THEN Turn(f.raised, <<>>, TRUE)
             ELSE IF ~Falsy(f.value) THEN DensitiesOfFetched(f, n)
             ELSE Turn("none", <<>>, TRUE)

\* the whole loop, given its turns: it runs up to the first turn that raises;
\* all_langs_density[k] = all_langs_density.get(k, 0) + d for every <<k, d>>
\* added, so a key stands where it was first added and holds the sum of what
\* the turns added to it
Loop(turns) ==
    LET bad == {i \in DOMAIN turns : turns[i].raised # "none"}
        last == IF bad = {} THEN Len(turns)
                ELSE CHOOSE i \in bad : \A j \in bad : i <= j
        done == {i \in 1..last : turns[i].raised = "none" /\ turns[i].adds # <<>>}
        keys == UNION {Keys(turns[i].adds) : i \in done}
        first == [k \in keys |->
                    LET i == CHOOSE h \in done :
                                /\ HasKey(turns[h].adds, k)
                                /\ \A j \in done : j < h => ~HasKey(turns[j].adds, k)
                    IN  <<i, CHOOSE j \in DOMAIN turns[i].adds : turns[i].adds[j][1] = k>>]
        Before(e, f) == e[1] < f[1] \/ (e[1] = f[1] /\ e[2] < f[2])
        place == [k \in keys |-> 1 + Cardinality({h \in keys : Before(first[h], first[k])})]
        Total(k) == RSum([i \in 1..last |->
                            IF i \in done /\ HasKey(turns[i].adds, k)
                            THEN Get(turns[i].adds, k) ELSE RInt(0)])
    IN  [raised |-> IF bad = {} THEN "none" ELSE turns[last].raised,
         visited |-> last,
         asked |-> {i \in 1..last : turns[i].asked},
         density |-> [q \in 1..Cardinality(keys) |->
                        LET k == CHOOSE h \in keys : place[h] = q
                        IN  <<k, Total(k)>>]]

\* repo_count = len(all_repos); for r in all_repos: ...
GS_Aggregate(repos, data, tok) ==
    Loop([i \in DOMAIN repos |-> GS_Turn(repos[i], data[i], tok, Len(repos))])

\* for r in repos: ... (density / len(repos))
LG_Aggregate(repos, data, tok) ==
    Loop([i \in DOMAIN repos |-> LG_Turn(repos[i], data[i], tok, Len(repos))])

\* one turn of the loop of scripts/generate_stats.py over record r: if ld:
\* for k, v in ld.items(): all_langs[k] = all_langs.get(k, 0) + v; ld.items()
\* of an answer that is not a dict raises AttributeError
SC_Turn(r, resp, tok) ==
    LET f == SC_fetch_data(r.languages_url, tok, resp)
    IN  IF f.raised # "none" THEN Turn(f.raised, <<>>, TRUE)
        ELSE IF Falsy(f.value) THEN Turn("none", <<>>, TRUE)
        ELSE IF f.value.type # "dict" THEN Turn("AttributeError", <<>>, TRUE)
        ELSE Turn("none",
                  [j \in DOMAIN f.value.items |->
                     <<f.value.items[j][1], RInt(f.value.items[j][2])>>],
                  TRUE)

\* the weight given to a priority language that no answer named
PriorityDefault == 50000

\* for p_lang in PRIORITY_LANGS: if p_lang not in all_langs:
\* all_langs[p_lang] = 50000
SC_InjectPriority(all_langs) ==
    all_langs \o
        LET absent == SelectSeq(PRIORITY_LANGS, LAMBDA p : ~HasKey(all_langs, p))
        IN  [j \in DOMAIN absent |-> <<absent[j], RInt(PriorityDefault)>>]

\* for r in all_repos: ...; for p_lang in PRIORITY_LANGS: ... of
\* scripts/generate_stats.py
SC_Aggregate(repos, data, tok) ==
    LET l == Loop([i \in DOMAIN repos |-> SC_Turn(repos[i], data[i], tok)])
    IN  IF l.raised # "none" THEN l
        ELSE [l EXCEPT !.density = SC_InjectPriority(l.density)]

NoAgg == [raised |-> "none", visited |-> 0, asked |-> {}]

\* the exception main raises when the scan collected nothing
NoReposError(sc) ==
    IF sc = "stats" THEN "No repository data retrieved."
    ELSE IF sc = "languages" THEN "No repository metadata retrieved."
    ELSE "No repos found"

\* what get_local_hour() and os.getenv('GITHUB_EVENT_NAME') may give
Hours == 0..23
EventNames == {"none", "schedule", "push", "workflow_dispatch"}

\* a gate that lets only the hour 0 pass
Mutant_GateNoon(sc, event, hour) ==
    sc # "generate_stats" /\ event = "schedule" /\ hour # 0

\* stats.py and languages.py return at once on a scheduled run outside the
\* hours 0 and 12
Bypassed(sc, event, hour) ==
    sc # "generate_stats" /\ event = "schedule" /\ hour \notin {0, 12}

\* a loop that goes on after a page that is not full
Mutant_NeverShort(repos) == FALSE

\* if len(repos) < 100: break
ShortPage(repos) == Len(repos.items) < PerPage

\* main up to the try block; the event name and the hour it saw are kept in
\* gate where they are recorded
StartWith(recorded) ==
    /\ mode = "main"
    /\ pc = "start"
    /\ \E event \in EventNames, hour \in Hours :
          /\ pc' = IF Bypassed(script, event, hour) THEN "returned" ELSE "loop"
          /\ gate' = IF recorded THEN [event |-> event, hour |-> hour] ELSE gate
    /\ page' = 1
    /\ all_repos' = <<>>
    /\ UNCHANGED <<mode, token, script, listing, requests, stats, exc>>
    /\ UNCHANGED <<langVars, gradeVars, tripVars, url, response, fetched, pr_search>>
    /\ UNCHANGED <<aggVars, fileVars>>
    /\ UNCHANGED <<commit_calls, cache_reads, history, readme_writes>>

Start == StartWith(FALSE)

\* main up to the try block, with the event name and the hour recorded
GateStart == StartWith(TRUE)

\* one turn of the while loop: the request for the page, then
\*   if not repos: break
\*   all_repos.extend(repos)
\*   if len(repos) < 100: break
\*   page += 1
FetchPage ==
    /\ mode = "main"
    /\ pc = "loop"
    /\ \E resp \in PageResponses(listing, PerPage, page) :
          LET got == FetchBy(script, ListingUrl, token, resp)
              repos == got.value
              sent == [page |-> page, per_page |-> PerPage,
                       got |-> IF repos = None THEN -1 ELSE Len(repos.items)]
          IN  /\ got.raised = "none"
              /\ requests' = Append(requests, sent)
              /\ IF Falsy(repos)
                 THEN /\ pc' = "after_loop"
                      /\ UNCHANGED <<all_repos, page>>
                 ELSE /\ all_repos' = all_repos \o repos.items
                      /\ IF ShortPage(repos)
                         THEN pc' = "after_loop" /\ UNCHANGED page
                         ELSE pc' = "loop" /\ page' = page + 1
    /\ UNCHANGED <<mode, token, script, listing, stats, exc>>
    /\ UNCHANGED <<langVars, gradeVars, tripVars, url, response, fetched, pr_search>>
    /\ UNCHANGED <<aggVars, fileVars>>
    /\ UNCHANGED obsVars

\* if not all_repos: raise Exception(...), which the except clause of main
\* catches; otherwise stats.py and generate_stats.py sum the stars and the
\* open issues, and languages.py goes on to the language fetches
CheckRepos ==
    /\ mode = "main"
    /\ pc = "after_loop"
    /\ IF all_repos = <<>>
       THEN /\ exc' = NoReposError(script)
            /\ pc' = "except"
            /\ UNCHANGED stats
       ELSE /\ exc' = exc
            /\ pc' = "live"
            /\ stats' = IF script = "languages" THEN stats
                        ELSE [stats EXCEPT !.stars = SumStars(all_repos),
                                           !.issues = SumIssues(all_repos)]
    /\ UNCHANGED <<mode, token, script, listing, page, all_repos, requests>>
    /\ UNCHANGED <<langVars, gradeVars, tripVars, url, response, fetched, pr_search>>
    /\ UNCHANGED <<aggVars, fileVars>>
    /\ UNCHANGED obsVars

-----------------------------------------------------------------------------
(* main after the scan: the live path of each script (impact figures,       *)
(* commits, language aggregation, cache write, badge) and its except        *)
(* clause.                                                                  *)

\* d.get(k, default) of a dict given by its items
GetOr(items, k, default) == IF HasKey(items, k) THEN Get(items, k) ELSE default

\* a file that does not exist, and a file with its content: JSON text of a
\* document, text that is not JSON, or bytes that are not UTF-8
NoFile == [state |-> "missing"]
File(kind, doc) == [state |-> "file", body |-> [kind |-> kind, doc |-> doc]]

\* a badge file: as the run found it, opened for writing and left empty, or
\* written with the svg of the data
OldBadge == [state |-> "old", data |-> None]
EmptyBadge == [state |-> "empty", data |-> None]
Written(data) == [state |-> "written", data |-> data]
NoBadges == [stats_svg |-> OldBadge, langs_svg |-> OldBadge]

\* the dict stats as a JSON document
StatsDict(fields) == [type |-> "dict", fields |-> fields]

\* stats['last_updated'] = datetime.now(timezone.utc).isoformat()
WithStamp(st, t) ==
    [f \in (DOMAIN st) \cup {"last_updated"} |->
        IF f = "last_updated" THEN t ELSE st[f]]

\* a snapshot an earlier run cached, and one whose commits no float() reads
CachedSnapshot ==
    WithStamp([stars |-> 120, commits |-> Chars(<<"1", "7", ".", "4", "k">>),
               prs |-> 20, issues |-> 5, contribs |-> 3], "earlier")
UngradableSnapshot ==
    WithStamp([stars |-> 120, commits |-> Chars(<<"n", "/", "a">>),
               prs |-> 20, issues |-> 5, contribs |-> 3], "earlier")

\* a distribution an earlier run cached
CachedDensity == <<<<"Python", <<3, 4>>>>, <<"R", <<1, 4>>>>>>

\* a cache file that forgets the distribution
Mutant_PayloadEmpty(t, density) ==
    Dict(<<<<"last_updated", t>>, <<"data", Dict(<<>>)>>>>)

\* the payload {"last_updated": ..., "data": all_langs_density}
Payload(t, density) == Dict(<<<<"last_updated", t>>, <<"data", Dict(density)>>>>)

\* the states the cache file of a script may be in when main starts
CacheStates(sc) ==
    IF sc = "stats"
    THEN {NoFile, File("json", StatsDict(CachedSnapshot)),
          File("json", StatsDict(UngradableSnapshot)), File("json", List(<<>>)),
          File("text", None), File("bytes", None)}
    ELSE IF sc = "languages"
    THEN {NoFile, File("json", Payload("earlier", CachedDensity)),
          File("json", Dict(CachedDensity)), File("json", List(<<>>)),
          File("text", None), File("bytes", None)}
    ELSE {NoFile}

\* create_stats_svg(stats, username) of stats.py: calculate_grade(stats) reads
\* the fields with stats.get, which a document that is no dict does not have
ST_create_stats_svg(doc) ==
    IF doc.type # "dict" THEN [raised |-> "AttributeError", grade |-> "none"]
    ELSE LET g == ST_calculate_grade(doc.fields)
         IN  [raised |-> g.raised, grade |-> g.label]

\* create_stats_svg(stats, username) of generate_stats.py
GS_create_stats_svg(doc) ==
    LET g == GS_calculate_grade(doc.fields)
    IN  [raised |-> g.raised, grade |-> g.label]

\* with open(path, "w") as f: f.write(svg): the file is opened, and so emptied,
\* before the svg is made
WriteBadge(drawn, data) == IF drawn.raised # "none" THEN EmptyBadge ELSE Written(data)

\* the urls of the searches
PrSearchUrl == Url("https", "api.github.com/search/issues?q=author:Amey-Thakur+type:pr")
CommitSearchUrl == Url("https", "api.github.com/search/commits?q=author:Amey-Thakur")

\* a url split at its slashes
RepositoryUrl(owner) == <<"https:", "", "api.github.com", "repos", owner, "project">>

\* re.search(r'/repos/([^/]+)/', repo_url): the segment behind the first
\* segment "repos" that stands behind a slash, when it is not empty and a
\* slash follows it
OwnerIn(path) ==
    LET hits == {i \in 2..(Len(path) - 2) : path[i] = "repos" /\ path[i + 1] # ""}
    IN  IF hits = {} THEN {}
        ELSE {path[(CHOOSE i \in hits : \A j \in hits : i <= j) + 1]}

\* what the pull request search may answer
PrDocuments ==
    {Dict(<<<<"total_count", 0>>, <<"items", <<>>>>>>),
     Dict(<<<<"total_count", 7>>,
            <<"items", <<[repository_url |-> RepositoryUrl("org-a")],
                         [repository_url |-> RepositoryUrl(UserName)],
                         [repository_url |-> RepositoryUrl("org-c")],
                         [repository_url |-> <<>>]>>>>>>),
     List(<<"message">>)}

PrResponses ==
    {[error |-> "none", body |-> [kind |-> "json", doc |-> d]] : d \in PrDocuments}
        \cup {[error |-> "HTTPError", body |-> [kind |-> "json", doc |-> None]]}

\* unique_contexts of stats.py: the owners of the records and of the
\* repositories of the pull requests
UniqueContexts(repos, items) ==
    {repos[i].owner : i \in DOMAIN repos}
        \cup UNION {OwnerIn(items[j].repository_url) : j \in DOMAIN items}

Max(a, b) == IF a >= b THEN a ELSE b

\* max(1, len(unique_contexts) - (1 if username in unique_contexts else 0))
ST_Contribs(repos, items) ==
    LET unique_contexts == UniqueContexts(repos, items)
    IN  Max(1, Cardinality(unique_contexts)
                 - (IF UserName \in unique_contexts THEN 1 ELSE 0))

\* unique_orgs of generate_stats.py: max(1, len(unique_orgs))
GS_Contribs(repos) ==
    Max(1, Cardinality({repos[i].owner : i \in DOMAIN repos} \ {UserName}))

\* STEP 2 of stats.py: the pull request search and the contexts
ST_PrSearch ==
    /\ mode = "main"
    /\ script = "stats"
    /\ pc = "live"
    /\ \E resp \in PrResponses :
          LET found == ST_fetch_data(PrSearchUrl, token, resp).value
          IN  /\ pr_search' = found
              /\ IF Falsy(found)
                 THEN pc' = "commits" /\ UNCHANGED <<stats, exc>>
                 ELSE IF found.type # "dict"
                 THEN pc' = "except" /\ exc' = "AttributeError" /\ UNCHANGED stats
                 ELSE /\ stats' = [stats EXCEPT
                                     !.prs = GetOr(found.items, "total_count", 0),
                                     !.contribs = ST_Contribs(all_repos,
                                         GetOr(found.items, "items", <<>>))]
                      /\ pc' = "commits"
                      /\ UNCHANGED exc
    /\ UNCHANGED <<mode, token, script, listing, page, all_repos, requests>>
    /\ UNCHANGED <<langVars, gradeVars, tripVars, url, response, fetched>>
    /\ UNCHANGED <<aggVars, fileVars>>
    /\ UNCHANGED obsVars

\* what the streak service may answer: a failure, an svg without the label,
\* or an svg with a number in front of the label
StreakAnswers ==
    {[error |-> "URLError", text |-> <<>>],
     [error |-> "none", text |-> <<>>],
     [error |-> "none", text |-> <<",">>],
     [error |-> "none", text |-> <<"1", "7", ",", "4", "3", "2">>]}

\* the inner try block: urlopen, re.search, and
\* int(match.group(1).replace(',', ''))
StreakCount(answer) ==
    IF answer.error # "none" THEN [raised |-> answer.error, value |-> 0]
    ELSE IF answer.text = <<>> THEN [raised |-> "Exception", value |-> 0]
    ELSE LET digits == Replace(answer.text, <<",">>)
         IN  IF digits = <<>> THEN [raised |-> "ValueError", value |-> 0]
             ELSE [raised |-> "none", value |-> DigitsVal(digits)]

\* what the commit search may answer
CommitResponses ==
    {[error |-> "none", body |-> [kind |-> "json", doc |-> d]] :
        d \in {Dict(<<<<"total_count", 1234>>>>), List(<<"message">>)}}
        \cup {[error |-> "HTTPError", body |-> [kind |-> "json", doc |-> None]]}

\* a commit source that was asked, whether it gave a count, and the count
Asked(source, answered, count) ==
    [to |-> source, answered |-> answered, count |-> count]

\* a reconciliation that asks the commit search first and the streak service
\* only when the search gives nothing
Mutant_SearchFirst(answer, resp, tok) ==
    LET streak == StreakCount(answer)
        commit_data == ST_fetch_data(CommitSearchUrl, tok, resp).value
    IN  IF ~Falsy(commit_data) /\ commit_data.type = "dict"
        THEN [calls |-> <<Asked("commit_search", TRUE,
                                GetOr(commit_data.items, "total_count", 0))>>,
              raised |-> "none",
              commits |-> Chars(FormatCommits(
                              GetOr(commit_data.items, "total_count", 0)))]
        ELSE [calls |-> <<Asked("commit_search", FALSE, 0),
                          Asked("streak", streak.raised = "none", streak.value)>>,
              raised |-> "none",
              commits |-> Chars(FormatCommits(streak.value))]

\* STEP 3 of stats.py: stats["commits"] = "0", then the count of the streak
\* service; when the request or the search for the count raises, the count of
\* the commit search, where commit_data.get of an answer that is no dict
\* raises AttributeError out of the handler
ST_Reconcile(answer, resp, tok) ==
    LET streak == StreakCount(answer)
        commit_data == ST_fetch_data(CommitSearchUrl, tok, resp).value
        final_count == IF Falsy(commit_data) THEN 0
                       ELSE GetOr(commit_data.items, "total_count", 0)
    IN  IF streak.raised = "none"
        THEN [calls |-> <<Asked("streak", TRUE, streak.value)>>,
              raised |-> "none",
              commits |-> Chars(FormatCommits(streak.value))]
        ELSE IF ~Falsy(commit_data) /\ commit_data.type # "dict"
        THEN [calls |-> <<Asked("streak", FALSE, 0),
                          Asked("commit_search", TRUE, 0)>>,
              raised |-> "AttributeError",
              commits |-> Chars(<<"0">>)]
        ELSE [calls |-> <<Asked("streak", FALSE, 0),
                          Asked("commit_search", commit_data # None, final_count)>>,
              raised |-> "none",
              commits |-> Chars(FormatCommits(final_count))]

\* STEP 3 of stats.py in main
ST_Commits ==
    /\ mode = "main"
    /\ script = "stats"
    /\ pc = "commits"
    /\ \E answer \in StreakAnswers, resp \in CommitResponses :
          LET r == ST_Reconcile(answer, resp, token)
          IN  /\ commit_calls' = commit_calls \o r.calls
              /\ stats' = [stats EXCEPT !.commits = r.commits]
              /\ IF r.raised # "none"
                 THEN pc' = "except" /\ exc' = r.raised
                 ELSE pc' = "guard" /\ UNCHANGED exc
    /\ UNCHANGED <<mode, token, script, listing, page, all_repos, requests>>
    /\ UNCHANGED <<langVars, gradeVars, tripVars, url, response, fetched, pr_search>>
    /\ UNCHANGED <<aggVars, fileVars>>
    /\ UNCHANGED <<cache_reads, gate, history, readme_writes>>

\* a check that every snapshot passes
Mutant_CheckAlwaysPasses(st) == TRUE

\* if stats.get('stars', 0) > 0
ST_SanityCheck(st) == st.stars > 0

\* STEP 4 of stats.py: the cache is written when the check passes
ST_Persist ==
    /\ mode = "main"
    /\ script = "stats"
    /\ pc = "guard"
    /\ IF ST_SanityCheck(stats)
       THEN /\ stats' = WithStamp(stats, "now")
            /\ cache' = File("json", StatsDict(stats'))
            /\ cache_writes' = Append(cache_writes, StatsDict(stats'))
            /\ UNCHANGED printed
       ELSE /\ printed' = Append(printed, "Validation Failure")
            /\ UNCHANGED <<stats, cache, cache_writes>>
    /\ pc' = "render"
    /\ UNCHANGED <<mode, token, script, listing, page, all_repos, requests, exc>>
    /\ UNCHANGED <<langVars, gradeVars, tripVars, url, response, fetched, pr_search>>
    /\ UNCHANGED <<aggVars, badge>>
    /\ UNCHANGED obsVars

\* what README.md may be: missing, text, or bytes that are not UTF-8
ReadmeStates == {"missing", "text", "bytes"}

\* update_readme(timestamp): a missing file is left alone, and reading bytes
\* that are not UTF-8 raises
UpdateReadmeRaises(readme) == readme = "bytes"

\* update_readme(timestamp): a README.md that was read is written back
ReadmeWritten(readme) == readme = "text"

\* the README.md writes after a call of update_readme
Touched(readme) ==
    IF ReadmeWritten(readme) THEN readme_writes + 1 ELSE readme_writes

\* the end of the try block of stats.py: the badge, update_readme, the print
ST_Render ==
    /\ mode = "main"
    /\ script = "stats"
    /\ pc = "render"
    /\ LET drawn == ST_create_stats_svg(StatsDict(stats))
       IN  /\ badge' = [badge EXCEPT !.stats_svg = WriteBadge(drawn, StatsDict(stats))]
           /\ IF drawn.raised # "none"
              THEN /\ pc' = "except" /\ exc' = drawn.raised
                   /\ UNCHANGED <<printed, readme_writes>>
              ELSE \E readme \in ReadmeStates :
                      /\ readme_writes' = Touched(readme)
                      /\ IF UpdateReadmeRaises(readme)
                         THEN /\ pc' = "except"
                              /\ exc' = "UnicodeDecodeError"
                              /\ UNCHANGED printed
                         ELSE /\ pc' = "finished"
                              /\ printed' = Append(printed, "Success")
                              /\ UNCHANGED exc
    /\ UNCHANGED <<mode, token, script, listing, page, all_repos, requests, stats>>
    /\ UNCHANGED <<langVars, gradeVars, tripVars, url, response, fetched, pr_search>>
    /\ UNCHANGED <<aggVars, cache, cache_writes>>
    /\ UNCHANGED <<commit_calls, cache_reads, gate, history>>

\* the except clause of stats.py: the badge of the cached snapshot when the
\* cache file exists; what json.load or create_stats_svg raises leaves main
ST_Fallback ==
    /\ mode = "main"
    /\ script = "stats"
    /\ pc = "except"
    /\ IF cache.state = "missing"
       THEN /\ printed' = printed \o <<"Failure", "CRITICAL">>
            /\ pc' = "finished"
            /\ UNCHANGED <<stats, badge, exc>>
       ELSE LET loaded == Decode(cache.body)
                drawn == ST_create_stats_svg(loaded.value)
            IN  IF loaded.raised # "none"
                THEN /\ printed' = Append(printed, "Failure")
                     /\ pc' = "crashed"
                     /\ exc' = loaded.raised
                     /\ UNCHANGED <<stats, badge>>
                ELSE /\ stats' = IF loaded.value.type = "dict"
                                 THEN loaded.value.fields ELSE stats
                     /\ badge' = [badge EXCEPT
                                    !.stats_svg = WriteBadge(drawn, loaded.value)]
                     /\ IF drawn.raised # "none"
                        THEN /\ printed' = Append(printed, "Failure")
                             /\ pc' = "crashed"
                             /\ exc' = drawn.raised
                        ELSE /\ printed' = printed \o <<"Failure", "Recovered">>
                             /\ pc' = "finished"
                             /\ UNCHANGED exc
    /\ UNCHANGED <<mode, token, script, listing, page, all_repos, requests>>
    /\ UNCHANGED <<langVars, gradeVars, tripVars, url, response, fetched, pr_search>>
    /\ UNCHANGED <<aggVars, cache, cache_writes>>
    /\ cache_reads' = IF cache.state = "missing" THEN cache_reads ELSE cache_reads + 1
    /\ UNCHANGED <<commit_calls, gate, history, readme_writes>>

\* what the languages requests of a run may answer, record by record: every
\* map holds zero bytes; maps of one language, maps of two languages in equal
\* parts and failures in turn; or documents that are no maps
LangPatterns == {"zero", "mixed", "broken"}

AnswerOf(doc) == [error |-> "none", body |-> [kind |-> "json", doc |-> doc]]
FailedAnswer == [error |-> "HTTPError", body |-> [kind |-> "json", doc |-> None]]

PatternAnswer(pattern, i) ==
    IF pattern = "zero" THEN AnswerOf(Dict(<<<<"HTML", 0>>>>))
    ELSE IF pattern = "broken" THEN AnswerOf(List(<<"message">>))
    ELSE IF i % 3 = 0 THEN AnswerOf(Dict(<<<<"Python", 1000>>>>))
    ELSE IF i % 3 = 1 THEN AnswerOf(Dict(<<<<"Python", 500>>, <<"R", 500>>>>))
    ELSE FailedAnswer

\* the aggregation loop of languages.py in main
LG_AggregateLive ==
    /\ mode = "main"
    /\ script = "languages"
    /\ pc = "live"
    /\ \E pattern \in LangPatterns :
          LET data == [i \in DOMAIN all_repos |-> PatternAnswer(pattern, i)]
              a == LG_Aggregate(all_repos, data, token)
          IN  /\ lang_data' = data
              /\ all_langs_density' = a.density
              /\ agg' = [raised |-> a.raised, visited |-> a.visited, asked |-> a.asked]
              /\ IF a.raised # "none"
                 THEN pc' = "except" /\ exc' = a.raised
                 ELSE pc' = "guard" /\ UNCHANGED exc
    /\ UNCHANGED <<mode, token, script, listing, page, all_repos, requests, stats>>
    /\ UNCHANGED <<langVars, gradeVars, tripVars, url, response, fetched, pr_search>>
    /\ UNCHANGED fileVars
    /\ UNCHANGED obsVars

\* if sum(all_langs_density.values()) > 0
LG_SanityCheck(density) == RLt(RInt(0), RSum(Values(density)))

\* STEP 5 of languages.py: the cache is written when the check passes
LG_Persist ==
    /\ mode = "main"
    /\ script = "languages"
    /\ pc = "guard"
    /\ IF LG_SanityCheck(all_langs_density)
       THEN /\ cache' = File("json", Payload("now", all_langs_density))
            /\ cache_writes' = Append(cache_writes, Payload("now", all_langs_density))
            /\ UNCHANGED printed
       ELSE /\ printed' = Append(printed, "Validation Failure")
            /\ UNCHANGED <<cache, cache_writes>>
    /\ pc' = "render"
    /\ UNCHANGED <<mode, token, script, listing, page, all_repos, requests, stats, exc>>
    /\ UNCHANGED <<langVars, gradeVars, tripVars, url, response, fetched, pr_search>>
    /\ UNCHANGED <<aggVars, badge>>
    /\ UNCHANGED obsVars

\* create_langs_svg(langs, username) of languages.py: langs.items() of a
\* document that is no dict raises AttributeError
LG_DrawLangs(doc) ==
    IF doc.type # "dict" THEN [raised |-> "AttributeError", visible |-> <<>>]
    ELSE LET drawn == LG_create_langs_svg(doc.items)
         IN  [raised |-> drawn.raised, visible |-> drawn.visible]

\* create_langs_svg(langs) of generate_stats.py
GS_DrawLangs(doc) ==
    LET drawn == GS_create_langs_svg(doc.items)
    IN  [raised |-> drawn.raised, visible |-> drawn.visible]

\* the end of the try block of languages.py: the badge, update_readme, the
\* print
LG_Render ==
    /\ mode = "main"
    /\ script = "languages"
    /\ pc = "render"
    /\ LET drawn == LG_DrawLangs(Dict(all_langs_density))
       IN  /\ badge' = [badge EXCEPT
                          !.langs_svg = WriteBadge(drawn, Dict(all_langs_density))]
           /\ IF drawn.raised # "none"
              THEN /\ pc' = "except" /\ exc' = drawn.raised
                   /\ UNCHANGED <<printed, readme_writes>>
              ELSE \E readme \in ReadmeStates :
                      /\ readme_writes' = Touched(readme)
                      /\ IF UpdateReadmeRaises(readme)
                         THEN /\ pc' = "except"
                              /\ exc' = "UnicodeDecodeError"
                              /\ UNCHANGED printed
                         ELSE /\ pc' = "finished"
                              /\ printed' = Append(printed, "Success")
                              /\ UNCHANGED exc
    /\ UNCHANGED <<mode, token, script, listing, page, all_repos, requests, stats>>
    /\ UNCHANGED <<langVars, gradeVars, tripVars, url, response, fetched, pr_search>>
    /\ UNCHANGED <<aggVars, cache, cache_writes>>
    /\ UNCHANGED <<commit_calls, cache_reads, gate, history>>

\* a fallback that forgets the cached distribution
Mutant_CachedForgotten(cache_content) == Dict(<<>>)

\* cache_content.get('data', cache_content)
\*     if isinstance(cache_content, dict) else cache_content
LG_CachedDensity(cache_content) ==
    IF cache_content.type = "dict"
    THEN GetOr(cache_content.items, "data", cache_content)
    ELSE cache_content

\* the except clause of languages.py: the badge of the cached distribution
\* when the cache file exists; what json.load or create_langs_svg raises
\* leaves main
LG_Fallback ==
    /\ mode = "main"
    /\ script = "languages"
    /\ pc = "except"
    /\ IF cache.state = "missing"
       THEN /\ printed' = printed \o <<"Failure", "CRITICAL">>
            /\ pc' = "finished"
            /\ UNCHANGED <<all_langs_density, badge, exc>>
       ELSE LET loaded == Decode(cache.body)
                density == LG_CachedDensity(loaded.value)
                drawn == LG_DrawLangs(density)
            IN  IF loaded.raised # "none"
                THEN /\ printed' = Append(printed, "Failure")
                     /\ pc' = "crashed"
                     /\ exc' = loaded.raised
                     /\ UNCHANGED <<all_langs_density, badge>>
                ELSE /\ all_langs_density' = IF density.type = "dict"
                                             THEN density.items
                                             ELSE all_langs_density
                     /\ badge' = [badge EXCEPT !.langs_svg = WriteBadge(drawn, density)]
                     /\ IF drawn.raised # "none"
                        THEN /\ printed' = Append(printed, "Failure")
                             /\ pc' = "crashed"
                             /\ exc' = drawn.raised
                        ELSE /\ printed' = printed \o <<"Failure", "Recovered">>
                             /\ pc' = "finished"
                             /\ UNCHANGED exc
    /\ UNCHANGED <<mode, token, script, listing, page, all_repos, requests, stats>>
    /\ UNCHANGED <<langVars, gradeVars, tripVars, url, response, fetched, pr_search>>
    /\ UNCHANGED <<lang_data, agg, cache, cache_writes>>
    /\ cache_reads' = IF cache.state = "missing" THEN cache_reads ELSE cache_reads + 1
    /\ UNCHANGED <<commit_calls, gate, history, readme_writes>>

\* unique_orgs and the pull request search of generate_stats.py
GS_Impact ==
    /\ mode = "main"
    /\ script = "generate_stats"
    /\ pc = "live"
    /\ \E resp \in PrResponses :
          LET prs_data == GS_fetch_data(PrSearchUrl, token, resp).value
              counted == [stats EXCEPT !.contribs = GS_Contribs(all_repos)]
          IN  /\ pr_search' = prs_data
              /\ IF Falsy(prs_data)
                 THEN stats' = counted /\ pc' = "aggregate" /\ UNCHANGED exc
                 ELSE IF prs_data.type # "dict"
                 THEN stats' = counted /\ pc' = "except" /\ exc' = "AttributeError"
                 ELSE /\ stats' = [counted EXCEPT
                                     !.prs = GetOr(prs_data.items, "total_count", 0)]
                      /\ pc' = "aggregate"
                      /\ UNCHANGED exc
    /\ UNCHANGED <<mode, token, script, listing, page, all_repos, requests>>
    /\ UNCHANGED <<langVars, gradeVars, tripVars, url, response, fetched>>
    /\ UNCHANGED <<aggVars, fileVars>>
    /\ UNCHANGED obsVars

\* the aggregation loop of generate_stats.py in main
GS_AggregateLive ==
    /\ mode = "main"
    /\ script = "generate_stats"
    /\ pc = "aggregate"
    /\ \E pattern \in LangPatterns :
          LET data == [i \in DOMAIN all_repos |-> PatternAnswer(pattern, i)]
              a == GS_Aggregate(all_repos, data, token)
          IN  /\ lang_data' = data
              /\ all_langs_density' = a.density
              /\ agg' = [raised |-> a.raised, visited |-> a.visited, asked |-> a.asked]
              /\ IF a.raised # "none"
                 THEN pc' = "except" /\ exc' = a.raised
                 ELSE pc' = "render" /\ UNCHANGED exc
    /\ UNCHANGED <<mode, token, script, listing, page, all_repos, requests, stats>>
    /\ UNCHANGED <<langVars, gradeVars, tripVars, url, response, fetched, pr_search>>
    /\ UNCHANGED fileVars
    /\ UNCHANGED obsVars

\* both badges of generate_stats.py, one file after the other: the second
\* file is not opened when the first svg raises
BothBadges(old, stats_drawn, stats_doc, langs_drawn, langs_doc) ==
    [stats_svg |-> WriteBadge(stats_drawn, stats_doc),
     langs_svg |-> IF stats_drawn.raised # "none" THEN old.langs_svg
                   ELSE WriteBadge(langs_drawn, langs_doc)]

\* the end of the try block of generate_stats.py: both badges, update_readme,
\* the print
GS_Render ==
    /\ mode = "main"
    /\ script = "generate_stats"
    /\ pc = "render"
    /\ LET stats_drawn == GS_create_stats_svg(StatsDict(stats))
           langs_drawn == GS_DrawLangs(Dict(all_langs_density))
           raised == IF stats_drawn.raised # "none" THEN stats_drawn.raised
                     ELSE langs_drawn.raised
       IN  /\ badge' = BothBadges(badge, stats_drawn, StatsDict(stats),
                                  langs_drawn, Dict(all_langs_density))
           /\ IF raised # "none"
              THEN /\ pc' = "except" /\ exc' = raised
                   /\ UNCHANGED <<printed, readme_writes>>
              ELSE \E readme \in ReadmeStates :
                      /\ readme_writes' = Touched(readme)
                      /\ IF UpdateReadmeRaises(readme)
                         THEN /\ pc' = "except"
                              /\ exc' = "UnicodeDecodeError"
                              /\ UNCHANGED printed
                         ELSE /\ pc' = "finished"
                              /\ printed' = Append(printed, "Success")
                              /\ UNCHANGED exc
    /\ UNCHANGED <<mode, token, script, listing, page, all_repos, requests, stats>>
    /\ UNCHANGED <<langVars, gradeVars, tripVars, url, response, fetched, pr_search>>
    /\ UNCHANGED <<aggVars, cache, cache_writes>>
    /\ UNCHANGED <<commit_calls, cache_reads, gate, history>>

\* fallback_langs = {"HTML": 35.5, "Python": 25.0, "Jupyter Notebook": 10.0,
\*                   "R": 8.5, "JavaScript": 5.0}
fallback_langs ==
    <<<<"HTML", <<71, 2>>>>, <<"Python", <<25, 1>>>>,
      <<"Jupyter Notebook", <<10, 1>>>>, <<"R", <<17, 2>>>>,
      <<"JavaScript", <<5, 1>>>>>>

\* the except clause of generate_stats.py: both badges, the languages from
\* fallback_langs; what it raises leaves main
GS_Fallback ==
    /\ mode = "main"
    /\ script = "generate_stats"
    /\ pc = "except"
    /\ LET stats_drawn == GS_create_stats_svg(StatsDict(stats))
           langs_drawn == GS_DrawLangs(Dict(fallback_langs))
           raised == IF stats_drawn.raised # "none" THEN stats_drawn.raised
                     ELSE langs_drawn.raised
       IN  /\ badge' = BothBadges(badge, stats_drawn, StatsDict(stats),
                                  langs_drawn, Dict(fallback_langs))
           /\ IF raised # "none"
              THEN /\ pc' = "crashed" /\ exc' = raised
                   /\ UNCHANGED <<printed, readme_writes>>
              ELSE \E readme \in ReadmeStates :
                      /\ readme_writes' = Touched(readme)
                      /\ IF UpdateReadmeRaises(readme)
                         THEN /\ pc' = "crashed"
                              /\ exc' = "UnicodeDecodeError"
                              /\ UNCHANGED printed
                         ELSE /\ pc' = "finished"
                              /\ printed' = Append(printed, "Resilient Fallback Active")
                              /\ UNCHANGED exc
    /\ UNCHANGED <<mode, token, script, listing, page, all_repos, requests, stats>>
    /\ UNCHANGED <<langVars, gradeVars, tripVars, url, response, fetched, pr_search>>
    /\ UNCHANGED <<aggVars, cache, cache_writes>>
    /\ UNCHANGED <<commit_calls, cache_reads, gate, history>>

-----------------------------------------------------------------------------
(* The distributions the normalizer is applied to.                          *)

\* weights an input entry may carry
Weights == {0, 1, 2, 300}

\* weights a priority entry may carry
PrioWeights == {0, 1, 300}

\* the most priority languages in one input
MaxPrio == 2

\* the most other languages of one common weight in one input
MaxBulk == 18

OtherNames ==
    <<"HTML", "Jupyter Notebook", "JavaScript", "CSS", "TypeScript", "Java",
      "C", "C#", "PHP", "Ruby", "Swift", "Go", "Rust", "Shell", "Kotlin",
      "Dart", "SQL", "Scala", "Perl", "Haskell", "Lua", "Assembly">>

\* the priority entries of an input: a set of at most MaxPrio priority
\* languages with a weight each, in the order of PRIORITY_LANGS
RECURSIVE PrioEntries(_, _, _)
PrioEntries(present, w, i) ==
    IF i > Len(PRIORITY_LANGS) THEN <<>>
    ELSE IF PRIORITY_LANGS[i] \in present
    THEN <<<<PRIORITY_LANGS[i], RInt(w[PRIORITY_LANGS[i]])>>>>
            \o PrioEntries(present, w, i + 1)
    ELSE PrioEntries(present, w, i + 1)

PrioInputs ==
    UNION {{PrioEntries(present, w, 1) : w \in [present -> PrioWeights]} :
            present \in {P \in SUBSET Range(PRIORITY_LANGS) :
                            Cardinality(P) <= MaxPrio}}

\* the other entries: an optional head entry of any weight, then a block of n
\* entries of the common weight wb
OtherEntries(head, n, wb) ==
    [i \in 1..(Len(head) + n) |->
        <<OtherNames[i], RInt(IF i <= Len(head) THEN head[i] ELSE wb)>>]

HeadInputs == {<<>>} \cup {<<w>> : w \in Weights}

\* block sizes: none, and the sizes that bring an input up to the visible cap
BulkCounts == {0} \cup {n \in (MaxBulk - 1)..MaxBulk : n >= 0}

OtherInputs ==
    {OtherEntries(head, n, wb) :
        head \in HeadInputs, n \in BulkCounts, wb \in {2, 300}}

\* the priority entries are inserted before the others, or after them
LangInputs ==
    {p \o o : p \in PrioInputs, o \in OtherInputs}
        \cup {o \o p : p \in PrioInputs, o \in OtherInputs}

\* the other parts of the program at rest
FetchIdle ==
    /\ url = Url("", "")
    /\ token = None
    /\ response = [error |-> "none", body |-> [kind |-> "json", doc |-> None]]
    /\ fetched = NotFetched

LangsIdle == langs = <<>> /\ svg = NoSvg

GradeIdle ==
    /\ snapA = NoSnapshot
    /\ snapB = NoSnapshot
    /\ gradeA = NoGrade
    /\ gradeB = NoGrade

TripIdle == contrib_count = 0 /\ trip = NoTrip

AggIdle == lang_data = <<>> /\ all_langs_density = <<>> /\ agg = NoAgg

FilesIdle ==
    cache = NoFile /\ cache_writes = <<>> /\ badge = NoBadges /\ printed = <<>>

\* a gate whose inputs were not recorded
Unseen == [event |-> "unseen", hour |-> -1]

ObsIdle ==
    /\ commit_calls = <<>> /\ cache_reads = 0 /\ gate = Unseen /\ history = <<>>
    /\ readme_writes = 0

MainIdle ==
    /\ script = "none"
    /\ ObsIdle
    /\ listing = [n |-> 0, stars |-> 0, orgs |-> 0]
    /\ page = 1
    /\ all_repos = <<>>
    /\ requests = <<>>
    /\ stats = InitialStats("none")
    /\ exc = "none"
    /\ pr_search = None
    /\ AggIdle
    /\ FilesIdle

InitLangs ==
    /\ mode = "langs"
    /\ pc = "input"
    /\ langs \in LangInputs
    /\ svg = NoSvg
    /\ FetchIdle
    /\ GradeIdle
    /\ MainIdle
    /\ TripIdle

\* generate_stats.py draws the distribution
RenderGenerateStats ==
    /\ mode = "langs"
    /\ pc = "input"
    /\ svg' = GS_create_langs_svg(langs)
    /\ pc' = "rendered"
    /\ UNCHANGED <<mode, langs, fetchVars, gradeVars, mainVars, tripVars>>
    /\ UNCHANGED obsVars

\* languages.py draws the distribution
RenderLanguages ==
    /\ mode = "langs"
    /\ pc = "input"
    /\ svg' = LG_create_langs_svg(langs)
    /\ pc' = "rendered"
    /\ UNCHANGED <<mode, langs, fetchVars, gradeVars, mainVars, tripVars>>
    /\ UNCHANGED obsVars

NextLangs == RenderGenerateStats \/ RenderLanguages

SpecLangs == InitLangs /\ [][NextLangs]_vars

-----------------------------------------------------------------------------
(* The calls fetch_data is checked on.                                      *)

\* the urls of the scripts (built from constants, so well-formed), and values
\* of a languages_url field of a listing record, which the caller passes on
\* as received
UrlValues ==
    {Url("https", "api.github.com/users/Amey-Thakur/repos?per_page=100&page=1"),
     Url("https", "api.github.com/search/issues?q=author:Amey-Thakur+type:pr"),
     Url("https", "api.github.com/repos/Amey-Thakur/X/languages"),
     Url("", "api.github.com/repos/Amey-Thakur/X/languages"),
     Url("", "")}

TokenValues == {None, Str(""), Str("ghp_token")}

Documents ==
    {None,
     List(<<>>),
     List(<<"r1", "r2">>),
     Dict(<<>>),
     Dict(<<<<"total_count", 3>>>>)}

Responses ==
    {[error |-> "none", body |-> [kind |-> "json", doc |-> d]] : d \in Documents}
        \cup {[error |-> "none", body |-> [kind |-> k, doc |-> None]] :
                k \in {"text", "bytes"}}
        \cup {[error |-> e, body |-> [kind |-> "json", doc |-> None]] :
                e \in {"HTTPError", "URLError", "TimeoutError"}}

InitFetch ==
    /\ mode = "fetch"
    /\ pc = "call"
    /\ url \in UrlValues
    /\ token \in TokenValues
    /\ response \in Responses
    /\ fetched = NotFetched
    /\ LangsIdle
    /\ GradeIdle
    /\ MainIdle
    /\ TripIdle

FetchStats ==
    /\ mode = "fetch"
    /\ pc = "call"
    /\ fetched' = ST_fetch_data(url, token, response)
    /\ pc' = "returned"
    /\ UNCHANGED <<mode, url, token, response, langVars, gradeVars, mainVars, tripVars>>
    /\ UNCHANGED obsVars

FetchLanguages ==
    /\ mode = "fetch"
    /\ pc = "call"
    /\ fetched' = LG_fetch_data(url, token, response)
    /\ pc' = "returned"
    /\ UNCHANGED <<mode, url, token, response, langVars, gradeVars, mainVars, tripVars>>
    /\ UNCHANGED obsVars

FetchGenerateStats ==
    /\ mode = "fetch"
    /\ pc = "call"
    /\ fetched' = GS_fetch_data(url, token, response)
    /\ pc' = "returned"
    /\ UNCHANGED <<mode, url, token, response, langVars, gradeVars, mainVars, tripVars>>
    /\ UNCHANGED obsVars

NextFetch == FetchStats \/ FetchLanguages \/ FetchGenerateStats

SpecFetch == InitFetch /\ [][NextFetch]_vars

\* C7: fetch_data never raises: for every url, token and network, HTTP or
\* decoding outcome it returns the parsed document or None (the claim as
\* stated)
C7_FetchNeverRaises ==
    (mode = "fetch" /\ pc = "returned") =>
        /\ fetched.raised = "none"
        /\ \/ fetched.value = None
           \/ (response.error = "none" /\ response.body.kind = "json"
                /\ fetched.value = response.body.doc)

-----------------------------------------------------------------------------
(* The snapshots calculate_grade is checked on.                             *)

\* the most steps of 400 stars, of 30 pull requests, of 5 issues and of 2
\* contributions in a snapshot
MaxStarSteps == 2
MaxPrSteps == 1
MaxIssueSteps == 1
MaxContribSteps == 1

\* the commits fields of the snapshots, each with the count it stands for
CommitFields ==
    {<<PyInt(0), 0>>,
     <<PyInt(950), 950>>,
     <<Chars(<<"1", "2", "0">>), 120>>,
     <<Chars(<<"4", ".", "1", "k">>), 4100>>,
     <<Chars(<<"1", "0", "k", "+">>), 10000>>,
     <<Chars(<<"1", "3", ".", "8", "k", "+">>), 13800>>}

\* the count a commits field of the model stands for
Denotes(v) == (CHOOSE c \in CommitFields : c[1] = v)[2]

Snapshots ==
    {[stars |-> 400 * s, commits |-> c[1], prs |-> 30 * p, issues |-> 5 * i,
      contribs |-> 2 * k] :
        s \in 0..MaxStarSteps, c \in CommitFields, p \in 0..MaxPrSteps,
        i \in 0..MaxIssueSteps, k \in 0..MaxContribSteps}

\* every field of a is less than or equal to the field of b
FieldwiseLe(a, b) ==
    /\ a.stars <= b.stars
    /\ Denotes(a.commits) <= Denotes(b.commits)
    /\ a.prs <= b.prs
    /\ a.issues <= b.issues
    /\ a.contribs <= b.contribs

InitGrade ==
    /\ mode = "grade"
    /\ pc = "call"
    /\ snapA \in Snapshots
    /\ snapB \in {b \in Snapshots : FieldwiseLe(snapA, b)}
    /\ gradeA = NoGrade
    /\ gradeB = NoGrade
    /\ LangsIdle
    /\ FetchIdle
    /\ MainIdle
    /\ TripIdle

GradeStats ==
    /\ mode = "grade"
    /\ pc = "call"
    /\ gradeA' = ST_calculate_grade(snapA)
    /\ gradeB' = ST_calculate_grade(snapB)
    /\ pc' = "returned"
    /\ UNCHANGED <<mode, snapA, snapB, langVars, fetchVars, mainVars, tripVars>>
    /\ UNCHANGED obsVars

GradeGenerateStats ==
    /\ mode = "grade"
    /\ pc = "call"
    /\ gradeA' = GS_calculate_grade(snapA)
    /\ gradeB' = GS_calculate_grade(snapB)
    /\ pc' = "returned"
    /\ UNCHANGED <<mode, snapA, snapB, langVars, fetchVars, mainVars, tripVars>>
    /\ UNCHANGED obsVars

GradeScripts ==
    /\ mode = "grade"
    /\ pc = "call"
    /\ gradeA' = SC_calculate_grade(snapA)
    /\ gradeB' = SC_calculate_grade(snapB)
    /\ pc' = "returned"
    /\ UNCHANGED <<mode, snapA, snapB, langVars, fetchVars, mainVars, tripVars>>
    /\ UNCHANGED obsVars

NextGrade == GradeStats \/ GradeGenerateStats \/ GradeScripts

SpecGrade == InitGrade /\ [][NextGrade]_vars

-----------------------------------------------------------------------------
(* Claims about the grader, checked under SpecGrade.                        *)

Graded == mode = "grade" /\ pc = "returned"

\* the labels, lowest first
Labels == <<"C", "B-", "B", "B+", "A-", "A", "A+">>
LabelRank(l) == CHOOSE i \in DOMAIN Labels : Labels[i] = l

\* the labels each script returns over the snapshots of the model
ST_ReturnedLabels == {ST_calculate_grade(st).label : st \in Snapshots}
GS_ReturnedLabels == {GS_calculate_grade(st).label : st \in Snapshots}

\* C8: when every field of snapshot A is less than or equal to the field of
\* snapshot B, the percentile returned for A is less than or equal to the
\* percentile returned for B, in all three scripts
C8_GradeMonotone ==
    (Graded /\ FieldwiseLe(snapA, snapB)) =>
        /\ gradeA.raised = "none"
        /\ gradeB.raised = "none"
        /\ gradeA.percentile <= gradeB.percentile

\* C8 witness: two different snapshots, A below B, one with a commits string,
\* were graded into different percentiles
C8_Witness ==
    /\ Graded
    /\ FieldwiseLe(snapA, snapB)
    /\ snapA.commits # snapB.commits
    /\ snapB.commits.type = "str"
    /\ gradeA.percentile < gradeB.percentile

\* what C9 says of one graded pair: a label of the set, a percentile in
\* 0..100, one pair per score, and a higher label with a higher percentile
GradePairOk ==
    /\ gradeA.raised = "none"
    /\ gradeB.raised = "none"
    /\ gradeA.label \in Range(Labels)
    /\ gradeA.percentile \in 0..100
    /\ (gradeA.score = gradeB.score) =>
          (gradeA.label = gradeB.label /\ gradeA.percentile = gradeB.percentile)
    /\ (LabelRank(gradeA.label) < LabelRank(gradeB.label)) =>
          (gradeA.percentile < gradeB.percentile)
    /\ (LabelRank(gradeB.label) < LabelRank(gradeA.label)) =>
          (gradeB.percentile < gradeA.percentile)

\* C9 as stated: in stats.py and generate_stats.py every score has one
\* (label, percentile) pair, the label is in {C, B-, B, B+, A-, A, A+}, the
\* percentile is in 0..100, a higher label carries a higher percentile, and
\* every label of the set is returned for some score
C9_AsStated ==
    (Graded /\ gradeA.by \in {"stats", "generate_stats"}) =>
        /\ GradePairOk
        /\ (gradeA.by = "stats") => (ST_ReturnedLabels = Range(Labels))
        /\ (gradeA.by = "generate_stats") => (GS_ReturnedLabels = Range(Labels))

\* C9 amended: as stated, except that stats.py returns every label of the set
\* but B-, which it never returns
C9_GradeTable ==
    (Graded /\ gradeA.by \in {"stats", "generate_stats"}) =>
        /\ GradePairOk
        /\ (gradeA.by = "stats") => (ST_ReturnedLabels = Range(Labels) \ {"B-"})
        /\ (gradeA.by = "generate_stats") => (GS_ReturnedLabels = Range(Labels))

\* C9 witness: stats.py graded two snapshots on the two sides of the place
\* where generate_stats.py has B-
C9_Witness ==
    /\ Graded
    /\ gradeA.by = "stats"
    /\ gradeA.label = "C"
    /\ gradeB.label = "B"
    /\ GS_calculate_grade(snapA).label = "B-"

\* C10: stats.py and generate_stats.py read a commits field "<x>k" or "<x>k+"
\* as x * 1000 and an integer or a plain decimal string as its own value, and
\* the score is that value times 1.5 plus the terms of the other fields
C10_CommitsParsed ==
    (Graded /\ gradeA.by \in {"stats", "generate_stats"}) =>
        /\ gradeA.raised = "none"
        /\ gradeA.commits = RInt(Denotes(snapA.commits))
        /\ gradeA.score =
              RAdd(RInt(snapA.stars * 10 + snapA.prs * 50 + snapA.issues * 5
                            + snapA.contribs * 100),
                   Rat(Denotes(snapA.commits) * 3, 2))

\* C10 witness: the field "13.8k+" was graded with 13800 commits
C10_Witness ==
    /\ Graded
    /\ gradeA.by \in {"stats", "generate_stats"}
    /\ snapA.commits = Chars(<<"1", "3", ".", "8", "k", "+">>)
    /\ gradeA.commits = RInt(13800)

-----------------------------------------------------------------------------
(* The commits string of stats.py, written by main and read back by         *)
(* calculate_grade.                                                         *)

\* the most hundreds in a count
MaxHundreds == 175

\* the counts: below 1000, and up to MaxHundreds hundreds plus 0, 32 or 99
Counts ==
    {0, 1, 9, 10, 99, 100, 999}
        \cup {100 * q + r : q \in 10..MaxHundreds, r \in {0, 32, 99}}

InitTrip ==
    /\ mode = "trip"
    /\ pc = "count"
    /\ contrib_count \in Counts
    /\ trip = NoTrip
    /\ LangsIdle
    /\ FetchIdle
    /\ GradeIdle
    /\ MainIdle

\* main writes stats["commits"]
WriteCommits ==
    /\ mode = "trip"
    /\ pc = "count"
    /\ trip' = [trip EXCEPT !.text = FormatCommits(contrib_count)]
    /\ pc' = "written"
    /\ UNCHANGED <<mode, contrib_count, langVars, fetchVars, gradeVars, mainVars>>
    /\ UNCHANGED obsVars

\* calculate_grade reads it
ReadCommits ==
    /\ mode = "trip"
    /\ pc = "written"
    /\ LET parsed == ParseCommits64(Chars(trip.text))
       IN  trip' = [trip EXCEPT !.raised = parsed.raised, !.value = parsed.value]
    /\ pc' = "read"
    /\ UNCHANGED <<mode, contrib_count, langVars, fetchVars, gradeVars, mainVars>>
    /\ UNCHANGED obsVars

NextTrip == WriteCommits \/ ReadCommits

SpecTrip == InitTrip /\ [][NextTrip]_vars

ReadBack == mode = "trip" /\ pc = "read"

\* C11 as stated: for a count n >= 1000 the value v read back has
\* n - 100 < v <= n, and for n < 1000 it equals n
C11_AsStated ==
    ReadBack =>
        /\ trip.raised = "none"
        /\ IF contrib_count >= 1000
           THEN /\ F64CmpDyadic(trip.value, contrib_count - 100, 0) > 0
                /\ F64CmpDyadic(trip.value, contrib_count, 0) <= 0
           ELSE F64CmpDyadic(trip.value, contrib_count, 0) = 0

\* C11: for a count n >= 1000 the value v read back has n - 100 < v and is
\* within 2^-10 of 100 * floor(n / 100), so v < n + 2^-10 (the float product
\* can exceed the hundreds in its last bit); for n < 1000 it equals n
C11_RoundTrip ==
    ReadBack =>
        /\ trip.raised = "none"
        /\ IF contrib_count >= 1000
           THEN LET h == 100 * (contrib_count \div 100)
                IN  /\ F64CmpDyadic(trip.value, contrib_count - 100, 0) > 0
                    /\ F64CmpDyadic(trip.value, h * 1024 - 1, 10) > 0
                    /\ F64CmpDyadic(trip.value, h * 1024 + 1, 10) < 0
           ELSE F64CmpDyadic(trip.value, contrib_count, 0) = 0

\* C11 witness: 17432 was written as "17.4k" and read back as 17400
C11_Witness ==
    /\ ReadBack
    /\ contrib_count = 17432
    /\ trip.text = <<"1", "7", ".", "4", "k">>
    /\ F64CmpDyadic(trip.value, 17400, 0) = 0

-----------------------------------------------------------------------------
(* The aggregation loops of generate_stats.py and languages.py, run on      *)
(* short lists of repositories.                                             *)

\* the most repositories of a list
MaxRepos == 2

\* a repository of a list: its name and whether it is a fork
AggRepos ==
    {RepoRecord(0, nm[1], nm[2], UserName, 0, 0) :
        nm \in {<<DocsName, FALSE>>, <<DocsName, TRUE>>, <<CompilerName, FALSE>>}}

\* what the network may answer to a languages request: a failure, an empty
\* map, a map of zero bytes, a map of one language, a map of two languages in
\* equal parts, or a document that is no map
LangDocuments ==
    {Dict(<<>>),
     Dict(<<<<"HTML", 0>>>>),
     Dict(<<<<"Python", 1000>>>>),
     Dict(<<<<"Python", 500>>, <<"R", 500>>>>),
     List(<<"message">>)}

LangResponses ==
    {[error |-> "none", body |-> [kind |-> "json", doc |-> d]] : d \in LangDocuments}
        \cup {[error |-> "HTTPError", body |-> [kind |-> "json", doc |-> None]]}

\* the sequences of length 0..n over the set S
RECURSIVE SeqsUpTo(_, _)
SeqsUpTo(S, n) ==
    IF n = 0 THEN {<<>>}
    ELSE LET shorter == SeqsUpTo(S, n - 1)
         IN  shorter \cup {Append(q, x) : q \in {t \in shorter : Len(t) = n - 1}, x \in S}

InitAgg ==
    /\ mode = "aggregate"
    /\ pc = "repos"
    /\ script \in {"generate_stats", "languages", "scripts"}
    /\ \E pairs \in SeqsUpTo(AggRepos \X LangResponses, MaxRepos) :
          /\ pairs # <<>>
          /\ all_repos = [i \in DOMAIN pairs |-> pairs[i][1]]
          /\ lang_data = [i \in DOMAIN pairs |-> pairs[i][2]]
    /\ token = Str("ghp_token")
    /\ all_langs_density = <<>>
    /\ agg = NoAgg
    /\ FilesIdle
    /\ ObsIdle
    /\ pr_search = None
    /\ listing = [n |-> 0, stars |-> 0, orgs |-> 0]
    /\ page = 1
    /\ requests = <<>>
    /\ stats = InitialStats("none")
    /\ exc = "none"
    /\ url = Url("", "")
    /\ response = [error |-> "none", body |-> [kind |-> "json", doc |-> None]]
    /\ fetched = NotFetched
    /\ LangsIdle
    /\ GradeIdle
    /\ TripIdle

\* the loop of generate_stats.py over the list
AggregateGenerateStats ==
    /\ mode = "aggregate"
    /\ pc = "repos"
    /\ script = "generate_stats"
    /\ LET a == GS_Aggregate(all_repos, lang_data, token)
       IN  /\ all_langs_density' = a.density
           /\ agg' = [raised |-> a.raised, visited |-> a.visited, asked |-> a.asked]
    /\ pc' = "aggregated"
    /\ UNCHANGED <<mode, langVars, fetchVars, gradeVars, tripVars>>
    /\ UNCHANGED <<script, listing, page, all_repos, requests, stats, exc, lang_data>>
    /\ UNCHANGED pr_search
    /\ UNCHANGED fileVars
    /\ UNCHANGED obsVars

\* the loop of languages.py over the list
AggregateLanguages ==
    /\ mode = "aggregate"
    /\ pc = "repos"
    /\ script = "languages"
    /\ LET a == LG_Aggregate(all_repos, lang_data, token)
       IN  /\ all_langs_density' = a.density
           /\ agg' = [raised |-> a.raised, visited |-> a.visited, asked |-> a.asked]
    /\ pc' = "aggregated"
    /\ UNCHANGED <<mode, langVars, fetchVars, gradeVars, tripVars>>
    /\ UNCHANGED <<script, listing, page, all_repos, requests, stats, exc, lang_data>>
    /\ UNCHANGED pr_search
    /\ UNCHANGED fileVars
    /\ UNCHANGED obsVars

\* the loop of scripts/generate_stats.py over the list, and the weights of
\* the priority languages it adds
AggregateScripts ==
    /\ mode = "aggregate"
    /\ pc = "repos"
    /\ script = "scripts"
    /\ LET a == SC_Aggregate(all_repos, lang_data, token)
       IN  /\ all_langs_density' = a.density
           /\ agg' = [raised |-> a.raised, visited |-> a.visited, asked |-> a.asked]
    /\ pc' = "aggregated"
    /\ UNCHANGED <<mode, langVars, fetchVars, gradeVars, tripVars>>
    /\ UNCHANGED <<script, listing, page, all_repos, requests, stats, exc, lang_data>>
    /\ UNCHANGED pr_search
    /\ UNCHANGED fileVars
    /\ UNCHANGED obsVars

NextAgg == AggregateGenerateStats \/ AggregateLanguages \/ AggregateScripts

SpecAgg == InitAgg /\ [][NextAgg]_vars

\* the language map a response carries, and its byte counts
MapOf(resp) ==
    IF resp.error = "none" /\ resp.body.kind = "json" /\ resp.body.doc.type = "dict"
    THEN resp.body.doc.items ELSE <<>>
BytesOf(resp, k) == IF HasKey(MapOf(resp), k) THEN Get(MapOf(resp), k) ELSE 0
TotalOf(resp) == SumOf(Values(MapOf(resp)))

\* a response that is a failure, an empty map or a map of bytes
IsMapOrFailure(resp) ==
    resp.error # "none" \/ (resp.body.kind = "json" /\ resp.body.doc.type = "dict")

\* the languages that occur in the answers or in the accumulator
AllLanguages ==
    Keys(all_langs_density) \cup UNION {Keys(MapOf(lang_data[i])) : i \in DOMAIN lang_data}

WeightOf(density, k) == IF HasKey(density, k) THEN Get(density, k) ELSE RInt(0)

\* the sum over the repositories with a positive byte total of
\* (bytes of k / total bytes) / N
SumOfDensities(k) ==
    RSum([i \in DOMAIN lang_data |->
            IF TotalOf(lang_data[i]) > 0
            THEN Rat(BytesOf(lang_data[i], k), TotalOf(lang_data[i]) * Len(all_repos))
            ELSE RInt(0)])

\* the sum over the repositories whose answer is a failure or an empty map of
\* 0.1 / N, for a priority language k whose lower-cased name occurs in the
\* lower-cased name of the repository
SumOfBoosts(k) ==
    RSum([i \in DOMAIN lang_data |->
            IF /\ MapOf(lang_data[i]) = <<>>
               /\ IsPriority(k)
               /\ IsSubstring(Lower(NameChars(k)), Lower(all_repos[i].name))
            THEN Rat(1, 10 * Len(all_repos))
            ELSE RInt(0)])

AggregatedBy(sc) ==
    mode = "aggregate" /\ pc = "aggregated" /\ script = sc /\ agg.raised = "none"

\* C16 as stated: in generate_stats.py the accumulated weight of each language
\* equals the sum over the repositories with a positive byte total of
\* (its bytes / the repository's total bytes) / N
C16_AsStated ==
    AggregatedBy("generate_stats") =>
        \A k \in AllLanguages :
            WeightOf(all_langs_density, k) = SumOfDensities(k)

\* C16: in generate_stats.py the accumulated weight of each language equals
\* the sum over the repositories with a positive byte total of (its bytes /
\* the repository's total bytes) / N, plus 0.1 / N for every repository whose
\* language data came back empty or not at all and whose name holds the name
\* of that priority language
C16_Aggregation ==
    AggregatedBy("generate_stats") =>
        \A k \in AllLanguages \cup Range(PRIORITY_LANGS) :
            WeightOf(all_langs_density, k) = RAdd(SumOfDensities(k), SumOfBoosts(k))

\* C16 witness: one repository that is 100% Python and one that is 50/50
\* Python/R gave Python = 0.75 and R = 0.25
C16_Witness ==
    /\ AggregatedBy("generate_stats")
    /\ Len(all_repos) = 2
    /\ MapOf(lang_data[1]) = <<<<"Python", 1000>>>>
    /\ MapOf(lang_data[2]) = <<<<"Python", 500>>, <<"R", 500>>>>
    /\ all_langs_density = <<<<"Python", <<3, 4>>>>, <<"R", <<1, 4>>>>>>

\* the loop of the script over the list, with the answers data
AggregateBy(sc, data) ==
    IF sc = "languages" THEN LG_Aggregate(all_repos, data, token)
    ELSE GS_Aggregate(all_repos, data, token)

ZeroBytes == [error |-> "none", body |-> [kind |-> "json", doc |-> Dict(<<<<"HTML", 0>>>>)]]
OneLanguage == [error |-> "none", body |-> [kind |-> "json", doc |-> Dict(<<<<"Python", 1000>>>>)]]

\* the answers with the answer of repository i replaced by a map of zero bytes
Without(data, i) == [j \in DOMAIN data |-> IF j = i THEN ZeroBytes ELSE data[j]]

\* the answers with every answer but that of repository i that has no positive
\* byte total replaced by a map with one
OthersSucceed(data, i) ==
    [j \in DOMAIN data |->
        IF j # i /\ TotalOf(data[j]) = 0 THEN OneLanguage ELSE data[j]]

\* C18: in generate_stats.py and languages.py, for every pattern of failed
\* fetches, empty maps and zero-byte maps the loop finishes without raising,
\* it visits every repository of the list, and
\* what a repository with a positive byte total adds to each language (the
\* accumulator less the accumulator of the run without that repository's
\* bytes) is what it adds when no other repository fails
C18_BestEffort ==
    (mode = "aggregate" /\ pc = "aggregated"
        /\ script \in {"generate_stats", "languages"}
        /\ \A i \in DOMAIN lang_data : IsMapOrFailure(lang_data[i])) =>
        /\ agg.raised = "none"
        /\ agg.visited = Len(all_repos)
        /\ \A i \in DOMAIN lang_data :
              TotalOf(lang_data[i]) > 0 =>
                \A k \in Keys(MapOf(lang_data[i])) :
                    LET good == OthersSucceed(lang_data, i)
                    IN  RAdd(WeightOf(all_langs_density, k),
                             WeightOf(AggregateBy(script, Without(good, i)).density, k))
                        = RAdd(WeightOf(AggregateBy(script, good).density, k),
                               WeightOf(AggregateBy(script, Without(lang_data, i)).density, k))

\* C18 witness: languages.py met a failed fetch, then a repository that is
\* 50/50 Python/R, which added a quarter to each
C18_Witness ==
    /\ AggregatedBy("languages")
    /\ Len(all_repos) = 2
    /\ lang_data[1].error = "HTTPError"
    /\ ~all_repos[2].fork
    /\ all_langs_density = <<<<"Python", <<1, 4>>>>, <<"R", <<1, 4>>>>>>

\* the sum of the byte counts of language k over the repositories that are
\* no forks and whose fetch gave a map
SumOfBytes(k) ==
    RInt(SumOf([i \in DOMAIN lang_data |->
                  IF all_repos[i].fork THEN 0 ELSE BytesOf(lang_data[i], k)]))

\* C21: after the aggregation of scripts/generate_stats.py the weight of every
\* language in the accumulator equals the sum of its byte counts over the
\* repositories that are no forks and whose language fetch succeeded; forks
\* contribute nothing
C21_RawSum ==
    AggregatedBy("scripts") =>
        \A k \in Keys(all_langs_density) :
            Get(all_langs_density, k) = SumOfBytes(k)

\* the repositories of the list that are no forks
NonForks == {i \in DOMAIN all_repos : ~all_repos[i].fork}

\* the sum over the repositories that are no forks and have a positive byte
\* total of (bytes of k / total bytes) / N, N counting the forks too
SumOfOwnDensities(k) ==
    RSum([i \in DOMAIN lang_data |->
            IF i \in NonForks /\ TotalOf(lang_data[i]) > 0
            THEN Rat(BytesOf(lang_data[i], k), TotalOf(lang_data[i]) * Len(all_repos))
            ELSE RInt(0)])

-----------------------------------------------------------------------------
(* The aggregation loop of generate_stats.py and of languages.py in float   *)
(* arithmetic, one turn at a time, over lists of repositories that are no   *)
(* forks and hold one language or a map of zero bytes.                      *)

\* the most repositories of such a list
MaxFloatRepos == 9

FloatDocuments == {Dict(<<<<"Python", 1000>>>>), Dict(<<<<"HTML", 0>>>>)}

\* all_langs_density[k] = all_langs_density.get(k, 0) + x
F64Put(acc, k, x) ==
    IF HasKey(acc, k)
    THEN [j \in DOMAIN acc |->
            IF acc[j][1] = k THEN <<k, F64Add(acc[j][2], x)>> ELSE acc[j]]
    ELSE Append(acc, <<k, x>>)

\* for k, v in ld.items():
\*     density = (v / r_total)
\*     all_langs_density[k] = all_langs_density.get(k, 0) + (density / n)
RECURSIVE F64Items(_, _, _, _)
F64Items(acc, items, r_total, n) ==
    IF items = <<>> THEN acc
    ELSE LET density == F64OfRatio(items[1][2], r_total)
         IN  F64Items(F64Put(acc, items[1][1], F64DivInt(density, n)),
                      Tail(items), r_total, n)

\* one turn of the loop on a repository whose fetch gave the map ld
F64Turn(acc, ld, n) ==
    LET r_total == SumOf([j \in DOMAIN ld.items |-> ld.items[j][2]])
    IN  IF r_total > 0 THEN F64Items(acc, ld.items, r_total, n) ELSE acc

InitFloat ==
    /\ mode = "accumulate"
    /\ pc = "turn"
    /\ script \in {"generate_stats", "languages"}
    /\ \E n \in 1..MaxFloatRepos :
          all_repos = [i \in 1..n |-> RepoRecord(i, DocsName, FALSE, UserName, 0, 0)]
    /\ lang_data = <<>>
    /\ token = Str("ghp_token")
    /\ all_langs_density = <<>>
    /\ agg = NoAgg
    /\ FilesIdle
    /\ ObsIdle
    /\ pr_search = None
    /\ listing = [n |-> 0, stars |-> 0, orgs |-> 0]
    /\ page = 1
    /\ requests = <<>>
    /\ stats = InitialStats("none")
    /\ exc = "none"
    /\ url = Url("", "")
    /\ response = [error |-> "none", body |-> [kind |-> "json", doc |-> None]]
    /\ fetched = NotFetched
    /\ LangsIdle
    /\ GradeIdle
    /\ TripIdle

\* one turn of the loop of the script sc
FloatTurn(sc) ==
    /\ mode = "accumulate"
    /\ script = sc
    /\ pc = "turn"
    /\ \E doc \in FloatDocuments :
          LET i == agg.visited + 1
              resp == [error |-> "none", body |-> [kind |-> "json", doc |-> doc]]
              f == FetchBy(sc, all_repos[i].languages_url, token, resp)
          IN  /\ f.raised = "none"
              /\ lang_data' = Append(lang_data, resp)
              /\ all_langs_density' =
                    IF Falsy(f.value) THEN all_langs_density
                    ELSE F64Turn(all_langs_density, f.value, Len(all_repos))
              /\ agg' = [agg EXCEPT !.visited = i, !.asked = @ \cup {i}]
              /\ pc' = IF i = Len(all_repos) THEN "aggregated" ELSE "turn"
    /\ UNCHANGED <<mode, langVars, fetchVars, gradeVars, tripVars>>
    /\ UNCHANGED <<script, listing, page, all_repos, requests, stats, exc, pr_search>>
    /\ UNCHANGED fileVars
    /\ UNCHANGED obsVars

FloatTurnGenerateStats == FloatTurn("generate_stats")
FloatTurnLanguages == FloatTurn("languages")

NextFloat == FloatTurnGenerateStats \/ FloatTurnLanguages

SpecFloat == InitFloat /\ [][NextFloat]_vars

\* sum(all_langs_density.values()) in floats
RECURSIVE F64Sum(_)
F64Sum(s) == IF s = <<>> THEN F64Zero ELSE F64Add(F64Sum(SubSeq(s, 1, Len(s) - 1)), s[Len(s)])

\* C29: in the aggregators of generate_stats.py and languages.py, after any
\* list of repositories with non-negative byte counts, every accumulated
\* weight lies in the range 0..1 and the weights sum to at most 1
C29_WeightsInRange ==
    (mode = "accumulate" /\ pc = "aggregated") =>
        /\ \A i \in DOMAIN all_langs_density :
              /\ F64CmpDyadic(all_langs_density[i][2], 0, 0) >= 0
              /\ F64CmpDyadic(all_langs_density[i][2], 1, 0) <= 0
        /\ F64CmpDyadic(F64Sum(Values(all_langs_density)), 1, 0) <= 0

-----------------------------------------------------------------------------
(* The runs of main.                                                        *)

\* the most full pages of a listing
MaxPages == 2

\* the listings: up to MaxPages full pages and a last page of 0, 1 or 37
\* records; every repository without stars and owned by the user, or
\* repository i with i % 3 stars and some owned by two organizations
Listings ==
    {[n |-> PerPage * f + r, stars |-> a[1], orgs |-> a[2]] :
        f \in 0..MaxPages, r \in {0, 1, 37},
        a \in {<<0, 0>>, <<1, 2>>}}

InitMain ==
    /\ mode = "main"
    /\ ObsIdle
    /\ pc = "start"
    /\ script \in {"stats", "languages", "generate_stats"}
    /\ listing \in Listings
    /\ token \in {None, Str("ghp_token")}
    /\ page = 1
    /\ all_repos = <<>>
    /\ requests = <<>>
    /\ stats = InitialStats(script)
    /\ exc = "none"
    /\ pr_search = None
    /\ AggIdle
    /\ cache \in CacheStates(script)
    /\ cache_writes = <<>>
    /\ badge = NoBadges
    /\ printed = <<>>
    /\ url = Url("", "")
    /\ response = [error |-> "none", body |-> [kind |-> "json", doc |-> None]]
    /\ fetched = NotFetched
    /\ LangsIdle
    /\ GradeIdle
    /\ TripIdle

NextMain ==
    \/ Start \/ FetchPage \/ CheckRepos
    \/ ST_PrSearch \/ ST_Commits \/ ST_Persist \/ ST_Render \/ ST_Fallback
    \/ LG_AggregateLive \/ LG_Persist \/ LG_Render \/ LG_Fallback
    \/ GS_Impact \/ GS_AggregateLive \/ GS_Render \/ GS_Fallback

Spec == InitMain /\ [][NextMain]_vars

\* the scan of main
Scan == Start \/ FetchPage \/ CheckRepos

\* each request of the scan completes or fails before the next step, and the
\* scan runs on
FairSpec == Spec /\ WF_vars(Scan)

-----------------------------------------------------------------------------
(* Claims about main after the scan: the cache, the badge, the fallback.    *)

\* main of stats.py or of languages.py has ended, and not at the schedule gate
Ended == mode = "main" /\ pc \in {"finished", "crashed"}
CachingScript == script \in {"stats", "languages"}

\* every fetch of the run failed: the first listing request, after which main
\* sends no other
EveryFetchFailed ==
    /\ requests # <<>>
    /\ \A i \in DOMAIN requests : requests[i].got = -1
    /\ pr_search = None
    /\ agg.asked = {}

\* the badge file of the script
OwnBadge == IF script = "languages" THEN badge.langs_svg ELSE badge.stats_svg

\* C12: when every fetch fails and the cache file holds a snapshot, main
\* ends normally, the data drawn into the badge is the cached snapshot (stats.py:
\* stars, commits, prs, issues, contribs; languages.py: the cached
\* distribution), and the cache file is not written during the run
C12_Fallback ==
    (Ended /\ EveryFetchFailed) =>
        /\ (script = "stats" /\ cache = File("json", StatsDict(CachedSnapshot))) =>
              /\ pc = "finished"
              /\ badge.stats_svg = Written(StatsDict(CachedSnapshot))
              /\ \A f \in {"stars", "commits", "prs", "issues", "contribs"} :
                    stats[f] = CachedSnapshot[f]
              /\ cache_writes = <<>>
        /\ (script = "languages"
              /\ cache \in {File("json", Payload("earlier", CachedDensity)),
                            File("json", Dict(CachedDensity))}) =>
              /\ pc = "finished"
              /\ badge.langs_svg = Written(Dict(CachedDensity))
              /\ all_langs_density = CachedDensity
              /\ cache_writes = <<>>

\* C12 witness: languages.py, every fetch failed, drew the distribution of the
\* cached payload
C12_Witness ==
    /\ Ended
    /\ EveryFetchFailed
    /\ script = "languages"
    /\ cache = File("json", Payload("earlier", CachedDensity))
    /\ badge.langs_svg = Written(Dict(CachedDensity))
    /\ printed = <<"Failure", "Recovered">>

\* the snapshot or the distribution main holds
LiveData == IF script = "languages" THEN Dict(all_langs_density) ELSE StatsDict(stats)

\* the sanity check, in the words of the claim: a star count above 0, weights
\* that sum to more than 0
ChecksOut ==
    IF script = "languages" THEN RLt(RInt(0), RSum(Values(all_langs_density)))
    ELSE stats.stars > 0

\* every write of the cache passed the check
WritesCheckedOut ==
    \A i \in DOMAIN cache_writes :
        IF script = "languages"
        THEN RLt(RInt(0), RSum(Values(Get(cache_writes[i].items, "data").items)))
        ELSE cache_writes[i].fields.stars > 0

\* a step changes the cache file only at the check of the live path, when the
\* check passes, and writes the live data; a failed check leaves the file as
\* it is; and the step that draws the badge on the live path draws the live
\* data
CacheStep ==
    /\ cache' # cache =>
          /\ pc = "guard"
          /\ exc = "none"
          /\ all_repos # <<>>
          /\ ChecksOut
          /\ cache'.body.doc = (IF script = "languages"
                                THEN Payload("now", all_langs_density)
                                ELSE StatsDict(stats'))
          /\ cache_writes' = Append(cache_writes, cache'.body.doc)
    /\ cache' = cache => cache_writes' = cache_writes
    /\ (pc = "guard" /\ ~ChecksOut) =>
          /\ cache' = cache
          /\ pc' = "render"
          /\ printed' = Append(printed, "Validation Failure")
    /\ (pc = "render" /\ CachingScript) => OwnBadge' = Written(LiveData)

\* C13: the cache file is written only on the live path and only when the
\* check passes: stats.py never writes a snapshot whose star count is 0,
\* languages.py never writes a distribution whose weights sum to 0; when the
\* check fails the cache file is left unchanged and the badge is still drawn
\* from the live data
C13_CacheGuard ==
    /\ [](CachingScript => WritesCheckedOut)
    /\ [][(mode = "main" /\ CachingScript) => CacheStep]_vars

\* C13 witness: stats.py found no stars, did not write the cache and drew the
\* badge from the live snapshot
C13_Witness ==
    /\ mode = "main"
    /\ script = "stats"
    /\ pc = "finished"
    /\ exc = "none"
    /\ stats.stars = 0
    /\ cache_writes = <<>>
    /\ cache = File("json", StatsDict(CachedSnapshot))
    /\ printed = <<"Validation Failure", "Success">>
    /\ badge.stats_svg = Written(StatsDict(stats))

\* C14: every run of stats.py and of languages.py that is not stopped by the
\* schedule gate writes its badge file: a run from which main has returned has
\* drawn its badge from a defined, non-empty input
C14_BadgeAlwaysWritten ==
    (mode = "main" /\ CachingScript /\ pc = "finished") =>
        /\ OwnBadge.state = "written"
        /\ OwnBadge.data.type = "dict"

\* C15: a failure on the fallback path never crashes the process: for every
\* state of the cache file, a run whose live path failed ends with main
\* returning normally after it printed a diagnostic
C15_FallbackNeverCrashes ==
    (mode = "main" /\ CachingScript) =>
        /\ pc # "crashed"
        /\ (pc = "finished" /\ exc # "none") => printed # <<>>

\* the owners named in what the pull request search returned
PrOwners ==
    IF Falsy(pr_search) \/ pr_search.type # "dict" THEN {}
    ELSE LET items == GetOr(pr_search.items, "items", <<>>)
         IN  UNION {OwnerIn(items[j].repository_url) : j \in DOMAIN items}

\* max(1, the number of distinct owners among the repository owners and the
\* owners named in the pull request results, not counting the user)
DistinctContributions ==
    Max(1, Cardinality(({all_repos[i].owner : i \in DOMAIN all_repos}
                            \cup PrOwners) \ {UserName}))

\* C17: in every snapshot the live path of stats.py draws or writes to the
\* cache, for every outcome of the pull request search, contribs is
\* max(1, distinct owners other than the user), and so never below 1
C17_Contribs ==
    (mode = "main" /\ script = "stats") =>
        /\ (pc \in {"guard", "render"}) =>
              /\ stats.contribs = DistinctContributions
              /\ stats.contribs >= 1
        /\ \A i \in DOMAIN cache_writes :
              /\ cache_writes[i].fields.contribs = DistinctContributions
              /\ cache_writes[i].fields.contribs >= 1

\* the verified baseline of the commit count: the figure generate_stats.py
\* starts from ("13.8k+")
VerifiedBaseline == 13800

\* the commit count a snapshot reports, as the grader reads it
Reported(st) == ParseCommits(st.commits).value

\* C22: the commit count that the live path reports is the larger of the raw
\* count of the remote source and the verified baseline, so it is never below
\* the baseline
C22_NeverBelowBaseline ==
    (mode = "main" /\ script \in {"stats", "generate_stats"}
        /\ pc \in {"guard", "render"}) =>
        RLe(RInt(VerifiedBaseline), Reported(stats))

\* C23: whenever generate_stats.py takes the fallback path, at whatever step
\* of the live path the exception was raised, the snapshot drawn into
\* stats.svg is the fixed default and holds no value of the live fetch
C23_FallbackSynthetic ==
    (mode = "main" /\ script = "generate_stats" /\ pc = "finished"
        /\ exc # "none") =>
        badge.stats_svg = Written(StatsDict(InitialStats("generate_stats")))

\* what the step of the commit sources leaves behind: the streak service is
\* asked first; when it gave a count, no other source is asked and commits is
\* that count; otherwise the commit search is asked next, and when that gave
\* nothing either, commits is "0" and main goes on with the live path
CommitStep ==
    LET c == commit_calls'
    IN  /\ commit_calls = <<>>
        /\ Len(c) \in {1, 2}
        /\ c[1].to = "streak"
        /\ c[1].answered =>
              /\ Len(c) = 1
              /\ stats'.commits = Chars(FormatCommits(c[1].count))
              /\ pc' = "guard"
        /\ ~c[1].answered =>
              /\ Len(c) = 2
              /\ c[2].to = "commit_search"
              /\ ~c[2].answered =>
                    /\ stats'.commits = Chars(<<"0">>)
                    /\ pc' = "guard"
                    /\ exc' = "none"

\* C24: in stats.py the streak service is asked first and its count is used
\* whenever it answers and the count is found; the commit search is asked only
\* when the streak request fails or the count is not found; when both fail
\* commits is "0" and the run stays on the live path; and no commit source is
\* asked at any other step
C24_CommitOrder ==
    [][(mode = "main" /\ script = "stats") =>
            IF pc = "commits" THEN CommitStep ELSE commit_calls' = commit_calls]_vars

\* C24 witness: the streak service gave no count, the commit search failed,
\* and stats.py went on to draw a badge with commits "0"
C24_Witness ==
    /\ mode = "main"
    /\ script = "stats"
    /\ pc = "finished"
    /\ exc = "none"
    /\ commit_calls = <<Asked("streak", FALSE, 0), Asked("commit_search", FALSE, 0)>>
    /\ stats.commits = Chars(<<"0">>)
    /\ badge.stats_svg = Written(StatsDict(stats))

\* one run of stats.py or of languages.py over a short listing, with the event
\* name and the hour recorded
GateListings == {l \in Listings : l.n <= 1 /\ l.stars = l.n}

InitGate ==
    /\ InitMain
    /\ CachingScript
    /\ listing \in GateListings

NextGate ==
    \/ GateStart \/ FetchPage \/ CheckRepos
    \/ ST_PrSearch \/ ST_Commits \/ ST_Persist \/ ST_Render \/ ST_Fallback
    \/ LG_AggregateLive \/ LG_Persist \/ LG_Render \/ LG_Fallback

SpecGate == InitGate /\ [][NextGate]_vars

\* the run was started on the schedule at an hour other than 0 and 12
Gated(g) == g.event = "schedule" /\ g.hour \notin {0, 12}

\* C26: in stats.py and languages.py, a scheduled run at an hour other than 0
\* and 12 returns from the gate, sends no request, and leaves the cache file,
\* the badge files and README.md as they were, and main does nothing after
\* it; under every other event name, and at the hours 0 and 12, main goes on
\* to the scan
C26_ScheduleGate ==
    [][(mode = "main" /\ CachingScript) =>
          /\ pc = "start" =>
                IF Gated(gate')
                THEN /\ pc' = "returned"
                     /\ UNCHANGED <<requests, pr_search, agg, commit_calls>>
                     /\ UNCHANGED <<cache, cache_writes, cache_reads>>
                     /\ UNCHANGED <<badge, readme_writes, printed>>
                ELSE pc' = "loop"
          /\ pc = "returned" => FALSE]_vars

C26_Witness ==
    /\ mode = "main"
    /\ script = "languages"
    /\ pc = "returned"
    /\ gate = [event |-> "schedule", hour |-> 13]
    /\ cache # NoFile
    /\ requests = <<>>
    /\ badge = NoBadges

\* C25: within one run of stats.py or languages.py, wherever it fails, the
\* cache file is written at most once, read at most once, and never both
\* written and read
C25_CacheOnce ==
    (mode = "main" /\ CachingScript) =>
        /\ Len(cache_writes) <= 1
        /\ cache_reads <= 1
        /\ ~(cache_writes # <<>> /\ cache_reads > 0)

-----------------------------------------------------------------------------
(* Runs of stats.py or of languages.py one after the other: the cache file  *)
(* and the badge files stay as the run before left them.                    *)

\* the most runs that follow the first
MaxReruns == 2

\* what is kept of a run that ended: whether its try block failed and, when
\* it wrote the cache file, the snapshot it wrote and its badge file as it
\* left it
RunRecord ==
    IF cache_writes = <<>>
    THEN [stored |-> None, failed |-> exc # "none", drawn |-> None]
    ELSE [stored |-> cache_writes[Len(cache_writes)],
          failed |-> exc # "none",
          drawn |-> OwnBadge]

\* what is kept of a run once a later run wrote the cache file: no later run
\* can read what it stored
Superseded == [stored |-> None, failed |-> FALSE, drawn |-> None]

\* if __name__ == "__main__": main(), once more
Rerun ==
    /\ mode = "main"
    /\ CachingScript
    /\ pc \in {"returned", "finished", "crashed"}
    /\ Len(history) < MaxReruns
    /\ history' = Append(IF cache_writes = <<>> THEN history
                          ELSE [j \in DOMAIN history |-> Superseded],
                          RunRecord)
    /\ pc' = "start"
    /\ listing' \in GateListings
    /\ page' = 1
    /\ all_repos' = <<>>
    /\ requests' = <<>>
    /\ stats' = InitialStats(script)
    /\ exc' = "none"
    /\ pr_search' = None
    /\ lang_data' = <<>>
    /\ all_langs_density' = <<>>
    /\ agg' = NoAgg
    /\ cache_writes' = <<>>
    /\ printed' = <<>>
    /\ commit_calls' = <<>>
    /\ cache_reads' = 0
    /\ readme_writes' = 0
    /\ UNCHANGED <<mode, token, script, cache, badge, gate>>
    /\ UNCHANGED <<langVars, gradeVars, tripVars, url, response, fetched>>

InitRuns ==
    /\ InitMain
    /\ CachingScript
    /\ listing \in GateListings
    /\ token = None
    /\ cache = NoFile

NextRuns ==
    \/ Start \/ FetchPage \/ CheckRepos
    \/ ST_PrSearch \/ ST_Commits \/ ST_Persist \/ ST_Render \/ ST_Fallback
    \/ LG_AggregateLive \/ LG_Persist \/ LG_Render \/ LG_Fallback
    \/ Rerun

SpecRuns == InitRuns /\ [][NextRuns]_vars

\* the earlier runs that wrote the cache file
Writers == {j \in DOMAIN history : history[j].stored # None}
LastWriter == CHOOSE j \in Writers : \A h \in Writers : h <= j

\* the snapshot a run of the script draws when it reads the document doc from
\* the cache file
Recovered(doc) ==
    IF script = "languages" THEN LG_CachedDensity(doc) ELSE doc

-----------------------------------------------------------------------------
(* Claims about the pagination loop of main.                                *)

\* the records of pages 1..k of the listing, in order
RECURSIVE PagesUpTo(_, _)
PagesUpTo(l, k) ==
    IF k = 0 THEN <<>> ELSE PagesUpTo(l, k - 1) \o PageOf(l, PerPage, k)

\* the pages that came back with records or empty, and not as a failure
Answered == {i \in 1..Len(requests) : requests[i].got >= 0}

Scanning == pc \in {"start", "loop"}
Scanned == pc \in {"after_loop", "live", "except"}

C5_Safety ==
    /\ \A i \in 1..Len(requests) :
          /\ requests[i].page = i
          /\ requests[i].per_page = 100
          /\ i < Len(requests) => requests[i].got = 100
    /\ pc = "loop" =>
          /\ page = Len(requests) + 1
          /\ \A i \in 1..Len(requests) : requests[i].got = 100
    /\ Scanned =>
          /\ requests # <<>>
          /\ requests[Len(requests)].got < 100
    /\ pc # "start" => all_repos = PagesUpTo(listing, Cardinality(Answered))
    /\ (Scanned /\ listing.n = 237 /\ Answered = 1..Len(requests)) =>
          /\ Len(requests) = 3
          /\ Len(all_repos) = 237

\* C5: the loop requests pages 1, 2, 3, ... in order with page size 100, stops
\* after the first page with fewer than 100 records (or none), sends no request
\* after that page and leaves in all_repos the concatenation of the records of
\* the requested pages; page sizes 100, 100, 37 give 237 records after 3
\* requests; and the loop always ends.
C5_Pagination ==
    /\ []C5_Safety
    /\ [][~Scanning => requests' = requests]_vars
    /\ <>(~Scanning)

C5_Witness ==
    /\ pc = "live"
    /\ listing.n = 237
    /\ Len(requests) = 3
    /\ requests[3].got = 37
    /\ Len(all_repos) = 237

\* the totals of the first n records of the listing, counted from the listing
StarsOfFirst(l, n) ==
    l.stars * (3 * (n \div 3) + (IF n % 3 = 0 THEN 0 ELSE IF n % 3 = 1 THEN 1 ELSE 3))
IssuesOfFirst(l, n) == (n + 1) \div 2

\* the fetch of page k > 1 failed after k - 1 full pages
FailedAfterFull ==
    /\ pc \in {"after_loop", "live"} \/ (pc = "except" /\ exc = NoReposError(script))
    /\ Len(requests) > 1
    /\ requests[Len(requests)].got = -1

\* C6: when the fetch of page k > 1 fails after k - 1 full pages the loop
\* stops, the records of pages 1..k-1 are kept, the run does not go to the
\* fallback, and the star and issue totals are the sums over the collected
\* records; the run goes from the scan to the fallback only when no record was
\* collected.
C6_FailPartial ==
    /\ FailedAfterFull =>
          LET k == Len(requests)
          IN  /\ all_repos = PagesUpTo(listing, k - 1)
              /\ Len(all_repos) = 100 * (k - 1)
              /\ pc \in {"after_loop", "live"}
              /\ exc = "none"
              /\ (pc = "live" /\ script # "languages") =>
                    /\ stats.stars = StarsOfFirst(listing, 100 * (k - 1))
                    /\ stats.issues = IssuesOfFirst(listing, 100 * (k - 1))
    /\ (pc = "except" /\ exc = NoReposError(script)) => all_repos = <<>>
    /\ (pc = "live" /\ script # "languages") =>
          /\ stats.stars = StarsOfFirst(listing, Len(all_repos))
          /\ stats.issues = IssuesOfFirst(listing, Len(all_repos))

C6_Witness ==
    /\ FailedAfterFull
    /\ Len(requests) = 3
    /\ pc = "live"
    /\ script = "stats"
    /\ stats.stars > 0
    /\ stats.issues = 100

-----------------------------------------------------------------------------
(* Claims about the normalizer, checked under SpecLangs.                    *)

Rendered == mode = "langs" /\ pc = "rendered"

\* the entries of langs that are priority languages with a weight other than 0
PresentPriority == {e \in Range(langs) : IsPriority(e[1]) /\ ~RIsZero(e[2])}

\* C1: for every non-empty distribution with non-negative weights, the final
\* percentages of the visible entries sum to exactly 100 (the claim as stated;
\* a call that raises has no percentages)
C1_SumIs100 ==
    (Rendered /\ langs # <<>>) =>
        /\ svg.raised = "none"
        /\ RSum(Values(svg.visible)) = RInt(100)

\* C2: every priority language with a nonzero weight in the input ends with a
\* final percentage of at least 1.0 (the claim as stated)
C2_PriorityAtLeastFloor ==
    (Rendered /\ svg.raised = "none") =>
        \A e \in PresentPriority :
            /\ HasKey(svg.visible, e[1])
            /\ RLe(RInt(FloorPct), Get(svg.visible, e[1]))

\* C3: in generate_stats.py every priority language that is a key of the input
\* is in the visible set, the remaining slots hold the highest-weight other
\* entries, no entry appears twice, and the visible set has exactly
\* min(18, number of input languages) entries
C3_VisibleSelection ==
    (Rendered /\ svg.by = "generate_stats") =>
        /\ \A e \in Range(langs) : IsPriority(e[1]) => e \in Range(svg.selected)
        /\ Range(svg.selected) \subseteq Range(langs)
        /\ \A s \in Range(svg.selected), e \in Range(langs) \ Range(svg.selected) :
              IsPriority(s[1]) \/ RLe(e[2], s[2])
        /\ Cardinality(Keys(svg.selected)) = Len(svg.selected)
        /\ Len(svg.selected) =
              (IF Len(langs) < VisibleCap THEN Len(langs) ELSE VisibleCap)

\* C3 witness: generate_stats.py drew an input of more than 18 languages in
\* which a priority language weighs less than an entry that was left out
C3_Witness ==
    /\ Rendered
    /\ svg.by = "generate_stats"
    /\ Len(langs) > VisibleCap
    /\ \E s \in Range(svg.selected), e \in Range(langs) \ Range(svg.selected) :
          IsPriority(s[1]) /\ RLt(s[2], e[2])

\* C4: in languages.py a priority language with a nonzero weight always
\* appears in the rendered visible set (the claim as stated)
C4_PriorityAlwaysVisible ==
    (Rendered /\ svg.by = "languages") =>
        \A e \in PresentPriority : HasKey(svg.visible, e[1])

\* C19: create_langs_svg never divides by zero: for every distribution with
\* non-negative weights, the empty one and the all-zero ones included, both
\* normalizations complete, a zero total being treated as 1
C19_NeverDividesByZero ==
    Rendered => svg.raised = "none"

\* the percentage of entry e of the selected list after one normalization and
\* one application of the floor
OnceFloored(e, total) ==
    LET p == RMul(RDiv(e[2], total), RInt(100))
    IN  IF IsPriority(e[1]) /\ RLt(p, RInt(FloorPct)) THEN RInt(FloorPct) ELSE p

\* C20: the floor and the re-normalization are applied once each, in that
\* order: every final percentage is the once-floored percentage of its entry
\* divided by the sum of the once-floored percentages, times 100; and every
\* final percentage, priority or not, lies in 0..100
C20_SinglePassInRange ==
    (Rendered /\ svg.raised = "none") =>
        LET sum_raw == RSum(Values(svg.selected))
            total == IF RIsZero(sum_raw) THEN RInt(1) ELSE sum_raw
            floored == [i \in DOMAIN svg.selected |->
                            OnceFloored(svg.selected[i], total)]
            sum_adj == RSum(floored)
            total_adj == IF RIsZero(sum_adj) THEN RInt(1) ELSE sum_adj
        IN  /\ Keys(svg.visible) = Keys(svg.selected)
            /\ Len(svg.visible) = Len(svg.selected)
            /\ \A i \in DOMAIN svg.selected :
                  Get(svg.visible, svg.selected[i][1])
                      = RMul(RDiv(floored[i], total_adj), RInt(100))
            /\ \A i \in DOMAIN svg.visible :
                  /\ RLe(RInt(0), svg.visible[i][2])
                  /\ RLe(svg.visible[i][2], RInt(100))

\* C20 witness: a priority entry was raised to the floor and the one
\* re-normalization left it below the floor again
C20_Witness ==
    /\ Rendered
    /\ svg.raised = "none"
    /\ \E i \in DOMAIN svg.visible :
          /\ IsPriority(svg.visible[i][1])
          /\ RLt(RInt(0), svg.visible[i][2])
          /\ RLt(svg.visible[i][2], RInt(FloorPct))

\* C27: the visible entries create_langs_svg draws are in non-increasing
\* order of their final percentage, in generate_stats.py and in languages.py,
\* also where the visibility floor raised a priority language
C27_DrawnDescending ==
    (Rendered /\ svg.raised = "none") =>
        \A i \in DOMAIN svg.visible :
            i > 1 => RLe(svg.visible[i][2], svg.visible[i - 1][2])

=============================================================================
